---- MODULE Spec2Model ----
(***************************************************************************)
(* Model of the definition synchronization engine of meta-sync             *)
(* (src/src/managers/definition.js): copyDefinitionsWithDependencies and   *)
(* deleteDefinitions of DefinitionManager, with the constants and the      *)
(* reserved-name predicates of src/src/utils/constants.js.                 *)
(*                                                                         *)
(* Text that the code inspects character by character (type names,         *)
(* namespaces, error messages) is kept in the state as strings and read    *)
(* through the table Chars as sequences of characters, so that             *)
(* toLowerCase, includes and startsWith are computed as the code computes  *)
(* them.  An error message is the sequence of the segments the code        *)
(* concatenates.                                                           *)
(***************************************************************************)
EXTENDS Integers, Sequences, FiniteSets, TLC

(* Bounds of the model. *)
MaxObjs == 2
MaxFields == 1
MaxFaults == 1
MaxChain == 4

OnePassMore == 3 + 1

(* src/src/utils/constants.js *)
MAX_DEPENDENCY_PASSES == 3

METAOBJECT_REFERENCE_VALIDATION_KEY == "metaobject_definition_id"

DEPENDENCY_ERROR_PATTERNS ==
  << "not found", "does not exist", "metaobject_reference",
     "invalid reference", "invalid_option",
     "validations must be a valid metaobject" >>

RESERVED_METAFIELD_NAMESPACES ==
  << "shopify", "shopify--discovery",
     "shopify--discovery--product_search_boost",
     "shopify--discovery--product_recommendation" >>

RESERVED_METAOBJECT_PREFIXES == << "shopify--" >>

UNRESOLVED_MESSAGE ==
  << "Unresolved metaobject dependency after maximum retry attempts" >>

(* The characters of every string the model reads character by character. *)
Chars ==
      ("not found" :> <<"n","o","t"," ","f","o","u","n","d">>)
   @@ ("does not exist" :> <<"d","o","e","s"," ","n","o","t"," ","e","x","i","s","t">>)
   @@ ("metaobject_reference" :> <<"m","e","t","a","o","b","j","e","c","t","_","r","e","f","e","r","e","n","c","e">>)
   @@ ("invalid reference" :> <<"i","n","v","a","l","i","d"," ","r","e","f","e","r","e","n","c","e">>)
   @@ ("invalid_option" :> <<"i","n","v","a","l","i","d","_","o","p","t","i","o","n">>)
   @@ ("validations must be a valid metaobject" :> <<"v","a","l","i","d","a","t","i","o","n","s"," ","m","u","s","t"," ","b","e"," ","a"," ","v","a","l","i","d"," ","m","e","t","a","o","b","j","e","c","t">>)
   @@ ("shopify" :> <<"s","h","o","p","i","f","y">>)
   @@ ("shopify--discovery" :> <<"s","h","o","p","i","f","y","-","-","d","i","s","c","o","v","e","r","y">>)
   @@ ("shopify--discovery--product_search_boost" :> <<"s","h","o","p","i","f","y","-","-","d","i","s","c","o","v","e","r","y","-","-","p","r","o","d","u","c","t","_","s","e","a","r","c","h","_","b","o","o","s","t">>)
   @@ ("shopify--discovery--product_recommendation" :> <<"s","h","o","p","i","f","y","-","-","d","i","s","c","o","v","e","r","y","-","-","p","r","o","d","u","c","t","_","r","e","c","o","m","m","e","n","d","a","t","i","o","n">>)
   @@ ("shopify--" :> <<"s","h","o","p","i","f","y","-","-">>)
   @@ ("--" :> <<"-","-">>)
   @@ ("font" :> <<"f","o","n","t">>)
   @@ ("typeface" :> <<"t","y","p","e","f","a","c","e">>)
   @@ ("glyph" :> <<"g","l","y","p","h">>)
   @@ ("family" :> <<"f","a","m","i","l","y">>)
   @@ ("weight" :> <<"w","e","i","g","h","t">>)
   @@ ("style" :> <<"s","t","y","l","e">>)
   @@ ("shopify--font" :> <<"s","h","o","p","i","f","y","-","-","f","o","n","t">>)
   @@ ("shopify--typeface" :> <<"s","h","o","p","i","f","y","-","-","t","y","p","e","f","a","c","e">>)
   @@ ("shopify--glyph" :> <<"s","h","o","p","i","f","y","-","-","g","l","y","p","h">>)
   @@ ("shopify--family" :> <<"s","h","o","p","i","f","y","-","-","f","a","m","i","l","y">>)
   @@ ("shopify--weight" :> <<"s","h","o","p","i","f","y","-","-","w","e","i","g","h","t">>)
   @@ ("shopify--style" :> <<"s","h","o","p","i","f","y","-","-","s","t","y","l","e">>)
   @@ ("custom" :> <<"c","u","s","t","o","m">>)
   @@ ("shopify--qa" :> <<"s","h","o","p","i","f","y","-","-","q","a">>)
   @@ ("shopify-x" :> <<"s","h","o","p","i","f","y","-","x">>)
   @@ ("title" :> <<"t","i","t","l","e">>)
   @@ ("color" :> <<"c","o","l","o","r">>)
   @@ ("size" :> <<"s","i","z","e">>)
   @@ ("Failed to create metaobject definition " :> <<"F","a","i","l","e","d"," ","t","o"," ","c","r","e","a","t","e"," ","m","e","t","a","o","b","j","e","c","t"," ","d","e","f","i","n","i","t","i","o","n"," ">>)
   @@ ("Failed to create metafield definition " :> <<"F","a","i","l","e","d"," ","t","o"," ","c","r","e","a","t","e"," ","m","e","t","a","f","i","e","l","d"," ","d","e","f","i","n","i","t","i","o","n"," ">>)
   @@ ("Failed to delete metaobject definition " :> <<"F","a","i","l","e","d"," ","t","o"," ","d","e","l","e","t","e"," ","m","e","t","a","o","b","j","e","c","t"," ","d","e","f","i","n","i","t","i","o","n"," ">>)
   @@ ("Failed to delete metafield definition " :> <<"F","a","i","l","e","d"," ","t","o"," ","d","e","l","e","t","e"," ","m","e","t","a","f","i","e","l","d"," ","d","e","f","i","n","i","t","i","o","n"," ">>)
   @@ (": " :> <<":"," ">>)
   @@ ("/" :> <<"/">>)
   @@ ("[{\"code\":\"INVALID_OPTION\"}]" :> <<"[","{","\"","c","o","d","e","\"",":","\"","I","N","V","A","L","I","D","_","O","P","T","I","O","N","\"","}","]">>)
   @@ ("[{\"code\":\"TAKEN\"}]" :> <<"[","{","\"","c","o","d","e","\"",":","\"","T","A","K","E","N","\"","}","]">>)
   @@ ("Shopify API request failed: HTTP 404: Not Found" :> <<"S","h","o","p","i","f","y"," ","A","P","I"," ","r","e","q","u","e","s","t"," ","f","a","i","l","e","d",":"," ","H","T","T","P"," ","4","0","4",":"," ","N","o","t"," ","F","o","u","n","d">>)
   @@ ("Unresolved metaobject dependency after maximum retry attempts" :> <<"U","n","r","e","s","o","l","v","e","d"," ","m","e","t","a","o","b","j","e","c","t"," ","d","e","p","e","n","d","e","n","c","y"," ","a","f","t","e","r"," ","m","a","x","i","m","u","m"," ","r","e","t","r","y"," ","a","t","t","e","m","p","t","s">>)
   @@ ("# Store Definitions: " :> <<"#"," ","S","t","o","r","e"," ","D","e","f","i","n","i","t","i","o","n","s",":"," ">>)
   @@ ("staging" :> <<"s","t","a","g","i","n","g">>)
   @@ ("\n" :> <<"\n">>)
   @@ ("\n\n" :> <<"\n","\n">>)
   @@ ("Generated: " :> <<"G","e","n","e","r","a","t","e","d",":"," ">>)
   @@ ("2025-08-22T14:00:00.000Z" :> <<"2","0","2","5","-","0","8","-","2","2","T","1","4",":","0","0",":","0","0",".","0","0","0","Z">>)
   @@ ("Found " :> <<"F","o","u","n","d"," ">>)
   @@ (" metafield definitions and " :> <<" ","m","e","t","a","f","i","e","l","d"," ","d","e","f","i","n","i","t","i","o","n","s"," ","a","n","d"," ">>)
   @@ (" metaobject definitions." :> <<" ","m","e","t","a","o","b","j","e","c","t"," ","d","e","f","i","n","i","t","i","o","n","s",".">>)
   @@ ("**" :> <<"*","*">>)
   @@ (" Reserved Definitions:** " :> <<" ","R","e","s","e","r","v","e","d"," ","D","e","f","i","n","i","t","i","o","n","s",":","*","*"," ">>)
   @@ (" metafields and " :> <<" ","m","e","t","a","f","i","e","l","d","s"," ","a","n","d"," ">>)
   @@ (" metaobjects are reserved by Shopify and cannot be modified by third-party apps." :> <<" ","m","e","t","a","o","b","j","e","c","t","s"," ","a","r","e"," ","r","e","s","e","r","v","e","d"," ","b","y"," ","S","h","o","p","i","f","y"," ","a","n","d"," ","c","a","n","n","o","t"," ","b","e"," ","m","o","d","i","f","i","e","d"," ","b","y"," ","t","h","i","r","d","-","p","a","r","t","y"," ","a","p","p","s",".">>)
   @@ ("## Metafields" :> <<"#","#"," ","M","e","t","a","f","i","e","l","d","s">>)
   @@ ("## Metaobjects" :> <<"#","#"," ","M","e","t","a","o","b","j","e","c","t","s">>)
   @@ ("### " :> <<"#","#","#"," ">>)
   @@ ("." :> <<".">>)
   @@ (" RESERVED" :> <<" ","R","E","S","E","R","V","E","D">>)
   @@ ("- **Type:** " :> <<"-"," ","*","*","T","y","p","e",":","*","*"," ">>)
   @@ ("single_line_text_field" :> <<"s","i","n","g","l","e","_","l","i","n","e","_","t","e","x","t","_","f","i","e","l","d">>)
   @@ ("- **Owner:** " :> <<"-"," ","*","*","O","w","n","e","r",":","*","*"," ">>)
   @@ ("PRODUCT" :> <<"P","R","O","D","U","C","T">>)
   @@ ("COLLECTION" :> <<"C","O","L","L","E","C","T","I","O","N">>)
   @@ ("- **Description:** " :> <<"-"," ","*","*","D","e","s","c","r","i","p","t","i","o","n",":","*","*"," ">>)
   @@ ("- **Access:** Admin=" :> <<"-"," ","*","*","A","c","c","e","s","s",":","*","*"," ","A","d","m","i","n","=">>)
   @@ ("PUBLIC_READ_WRITE" :> <<"P","U","B","L","I","C","_","R","E","A","D","_","W","R","I","T","E">>)
   @@ (", Storefront=" :> <<","," ","S","t","o","r","e","f","r","o","n","t","=">>)
   @@ ("PUBLIC_READ" :> <<"P","U","B","L","I","C","_","R","E","A","D">>)
   @@ ("- **Validations:** " :> <<"-"," ","*","*","V","a","l","i","d","a","t","i","o","n","s",":","*","*"," ">>)
   @@ ("=" :> <<"=">>)
   @@ (", " :> <<","," ">>)
   @@ ("- **" :> <<"-"," ","*","*">>)
   @@ (" Note:** This is a reserved Shopify definition and cannot be modified by third-party apps" :> <<" ","N","o","t","e",":","*","*"," ","T","h","i","s"," ","i","s"," ","a"," ","r","e","s","e","r","v","e","d"," ","S","h","o","p","i","f","y"," ","d","e","f","i","n","i","t","i","o","n"," ","a","n","d"," ","c","a","n","n","o","t"," ","b","e"," ","m","o","d","i","f","i","e","d"," ","b","y"," ","t","h","i","r","d","-","p","a","r","t","y"," ","a","p","p","s">>)
   @@ ("- **Name:** " :> <<"-"," ","*","*","N","a","m","e",":","*","*"," ">>)
   @@ ("- **Fields:**" :> <<"-"," ","*","*","F","i","e","l","d","s",":","*","*">>)
   @@ ("  - **" :> <<" "," ","-"," ","*","*">>)
   @@ ("** (" :> <<"*","*"," ","(">>)
   @@ (")" :> <<")">>)
   @@ (" *required*" :> <<" ","*","r","e","q","u","i","r","e","d","*">>)
   @@ (" - " :> <<" ","-"," ">>)
   @@ ("- **Capabilities:** " :> <<"-"," ","*","*","C","a","p","a","b","i","l","i","t","i","e","s",":","*","*"," ">>)
   @@ ("publishable" :> <<"p","u","b","l","i","s","h","a","b","l","e">>)
   @@ ("translatable" :> <<"t","r","a","n","s","l","a","t","a","b","l","e">>)
   @@ ("- **Entries:** " :> <<"-"," ","*","*","E","n","t","r","i","e","s",":","*","*"," ">>)
   @@ (" entries found" :> <<" ","e","n","t","r","i","e","s"," ","f","o","u","n","d">>)
   @@ ("Custom" :> <<"C","u","s","t","o","m">>)
   @@ ("specs.weight" :> <<"s","p","e","c","s",".","w","e","i","g","h","t">>)
   @@ ("Font" :> <<"F","o","n","t">>)
   @@ ("Typeface" :> <<"T","y","p","e","f","a","c","e">>)
   @@ ("Main font" :> <<"M","a","i","n"," ","f","o","n","t">>)
   @@ ("### custom.color" :> <<"#","#","#"," ","c","u","s","t","o","m",".","c","o","l","o","r">>)
   @@ ("### Custom.color" :> <<"#","#","#"," ","C","u","s","t","o","m",".","c","o","l","o","r">>)
   @@ ("### font" :> <<"#","#","#"," ","f","o","n","t">>)
   @@ ("  ###   font  " :> <<" "," ","#","#","#"," "," "," ","f","o","n","t"," "," ">>)
   @@ ("### glyph" :> <<"#","#","#"," ","g","l","y","p","h">>)
   @@ ("###font" :> <<"#","#","#","f","o","n","t">>)
   @@ ("## Metafield notes" :> <<"#","#"," ","M","e","t","a","f","i","e","l","d"," ","n","o","t","e","s">>)
   @@ ("# Metaobject types" :> <<"#"," ","M","e","t","a","o","b","j","e","c","t"," ","t","y","p","e","s">>)
   @@ (" " :> <<" ">>)
   @@ ("min" :> <<"m","i","n">>)
   @@ ("0" :> <<"0">>)
   @@ ("metafield" :> <<"m","e","t","a","f","i","e","l","d">>)
   @@ ("metaobject" :> <<"m","e","t","a","o","b","j","e","c","t">>)
   @@ ("#" :> <<"#">>)
   @@ ("###" :> <<"#","#","#">>)
   @@ ("WARNING SIGN" :> <<"U+26A0","U+FE0F">>)
   @@ ("1" :> <<"1">>)
   @@ ("2" :> <<"2">>)
   @@ ("3" :> <<"3">>)
   @@ ("4" :> <<"4">>)
   @@ ("5" :> <<"5">>)
   @@ ("6" :> <<"6">>)
   @@ ("7" :> <<"7">>)
   @@ ("8" :> <<"8">>)
   @@ ("9" :> <<"9">>)
   @@ ("yes" :> <<"y","e","s">>)
   @@ (" Yes " :> <<" ","Y","e","s"," ">>)
   @@ ("no" :> <<"n","o">>)

LowerCaseOf ==
      ("A" :> "a")
   @@ ("B" :> "b")
   @@ ("C" :> "c")
   @@ ("D" :> "d")
   @@ ("E" :> "e")
   @@ ("F" :> "f")
   @@ ("G" :> "g")
   @@ ("H" :> "h")
   @@ ("I" :> "i")
   @@ ("J" :> "j")
   @@ ("K" :> "k")
   @@ ("L" :> "l")
   @@ ("M" :> "m")
   @@ ("N" :> "n")
   @@ ("O" :> "o")
   @@ ("P" :> "p")
   @@ ("Q" :> "q")
   @@ ("R" :> "r")
   @@ ("S" :> "s")
   @@ ("T" :> "t")
   @@ ("U" :> "u")
   @@ ("V" :> "v")
   @@ ("W" :> "w")
   @@ ("X" :> "x")
   @@ ("Y" :> "y")
   @@ ("Z" :> "z")

Range(s) == { s[i] : i \in DOMAIN s }

(* String.prototype.toLowerCase on a sequence of characters. *)
ToLowerCase(s) ==
  [ i \in DOMAIN s |-> IF s[i] \in DOMAIN LowerCaseOf THEN LowerCaseOf[s[i]] ELSE s[i] ]

(* String.prototype.includes *)
Includes(s, p) ==
  \E i \in 1..(Len(s) - Len(p) + 1) : SubSeq(s, i, i + Len(p) - 1) = p

(* String.prototype.startsWith *)
StartsWith(s, p) ==
  /\ Len(p) <= Len(s)
  /\ SubSeq(s, 1, Len(p)) = p

WhiteSpace == { " ", "\t", "\r", "\n" }

(* String.prototype.trim *)
Trim(s) ==
  LET kept == { k \in DOMAIN s : s[k] \notin WhiteSpace }
  IN  IF kept = { } THEN << >>
      ELSE SubSeq(s, CHOOSE k \in kept : \A j \in kept : k <= j,
                     CHOOSE k \in kept : \A j \in kept : j <= k)

(* The text of a message: its segments concatenated (template literal). *)
RECURSIVE MessageText(_)
MessageText(segments) ==
  IF Len(segments) = 0 THEN << >>
  ELSE IF Len(segments) = 1 THEN Chars[segments[1]]
  ELSE LET half == Len(segments) \div 2
       IN  MessageText(SubSeq(segments, 1, half))
           \o MessageText(SubSeq(segments, half + 1, Len(segments)))

(* isReservedMetafieldNamespace: equal to a reserved namespace, or starting *)
(* with one followed by "--".                                              *)
isReservedMetafieldNamespace(namespace) ==
  \E r \in Range(RESERVED_METAFIELD_NAMESPACES) :
     \/ Chars[namespace] = Chars[r]
     \/ StartsWith(Chars[namespace], Chars[r] \o Chars["--"])

(* isReservedMetaobjectType: the type starts with a reserved prefix. *)
isReservedMetaobjectType(type) ==
  \E prefix \in Range(RESERVED_METAOBJECT_PREFIXES) :
     StartsWith(Chars[type], Chars[prefix])

(* The patterns looked up in the message as it is, without lower-casing.   *)
isDependencyErrorCaseSensitive(errorMessage) ==
  \E pattern \in Range(DEPENDENCY_ERROR_PATTERNS) :
     Includes(MessageText(errorMessage), Chars[pattern])

(* DefinitionManager.isDependencyError: the lower-cased message includes   *)
(* one of the patterns.                                                    *)
isDependencyError(errorMessage) ==
  LET lowerMessage == ToLowerCase(MessageText(errorMessage))
  IN  \E pattern \in Range(DEPENDENCY_ERROR_PATTERNS) :
         Includes(lowerMessage, Chars[pattern])

(***************************************************************************)
(* Data model.  An identifier is the pair of the store that assigned it    *)
(* and a number.  An object-definition carries its sub-fields with their   *)
(* validations (name/value pairs); a field-definition is identified by     *)
(* namespace and key and carries validations too.                          *)
(***************************************************************************)
Id(store, n) == << store, n >>

PlainTypes == << "font", "typeface", "glyph", "family", "weight", "style" >>
ReservedTypes ==
  << "shopify--font", "shopify--typeface", "shopify--glyph",
     "shopify--family", "shopify--weight", "shopify--style" >>
Namespaces == { "custom", "shopify", "shopify--qa", "shopify-x" }
FieldKeys == << "color", "size", "title" >>

Reference(id) ==
  << [ name |-> METAOBJECT_REFERENCE_VALIDATION_KEY, value |-> id ] >>

ObjectDefinition(store, i, type, validations) ==
  [ id |-> Id(store, i),
    type |-> type,
    fieldDefinitions |-> << [ key |-> "title", validations |-> validations ] >> ]

FieldDefinition(store, k, namespace, validations) ==
  [ id |-> Id(store, 100 + k),
    namespace |-> namespace,
    key |-> FieldKeys[k],
    validations |-> validations ]

(* The validation lists an input object-definition may carry: none, a     *)
(* reference to the identifier of one of the n object-definitions (itself  *)
(* included), or such a reference after a validation of another name that  *)
(* holds the same identifier.                                              *)
ValidationChoices(store, n) ==
  { << >> }
    \cup { Reference(Id(store, j)) : j \in 1..n }
    \cup { << [ name |-> "choices", value |-> Id(store, 1) ] >>
             \o Reference(Id(store, 1)) }

(* Lists of n object-definitions, at most one of them of a reserved type.  *)
ObjectLists(store, n) ==
  { [ i \in 1..n |->
        ObjectDefinition(store, i,
          IF i = r THEN ReservedTypes[i] ELSE PlainTypes[i], v[i]) ] :
      r \in 0..n, v \in [ 1..n -> ValidationChoices(store, n) ] }

FieldLists(store, m) ==
  { [ k \in 1..m |-> FieldDefinition(store, k, c[k].namespace, c[k].validations) ] :
      c \in [ 1..m -> [ namespace : Namespaces,
                        validations : { << >>, Reference(Id(store, 1)) } ] ] }

(* A dependency chain of n object-definitions, number k referencing number *)
(* k - 1, listed in the order given by the permutation.                    *)
ChainLists(n) ==
  { [ pos \in 1..n |->
        ObjectDefinition("source", order[pos], PlainTypes[order[pos]],
          IF order[pos] = 1 THEN << >> ELSE Reference(Id("source", order[pos] - 1))) ] :
      order \in Permutations(1..n) }

(* The calls the model starts from: the operation, its dryRun flag and its *)
(* definitions argument.  copy receives definitions read from the source   *)
(* store, delete definitions read from the store it deletes from.  Three   *)
(* families: any object-definitions with at most one plain                 *)
(* field-definition; any field-definitions with at most one plain          *)
(* object-definition; a dependency chain in any order.                     *)
StoreRead(o) == IF o = "copy" THEN "source" ELSE "target"

ObjectCalls ==
  UNION { { [ op |-> o, dryRun |-> d,
              definitions |-> [ metaobjects |-> objs, metafields |-> flds ] ] :
              objs \in ObjectLists(StoreRead(o), n),
              flds \in { << >>,
                         << FieldDefinition(StoreRead(o), 1, "custom",
                                            Reference(Id(StoreRead(o), 1))) >> },
              d \in BOOLEAN } :
          o \in { "copy", "delete" }, n \in 0..MaxObjs }

FieldCalls ==
  UNION { { [ op |-> o, dryRun |-> d,
              definitions |-> [ metaobjects |-> objs, metafields |-> flds ] ] :
              objs \in { << >>,
                         << ObjectDefinition(StoreRead(o), 1, PlainTypes[1], << >>) >> },
              flds \in FieldLists(StoreRead(o), m),
              d \in BOOLEAN } :
          o \in { "copy", "delete" }, m \in 0..MaxFields }

ChainCalls ==
  UNION { { [ op |-> "copy", dryRun |-> FALSE,
              definitions |-> [ metaobjects |-> objs, metafields |-> << >> ] ] :
              objs \in ChainLists(n) } : n \in 1..MaxChain }

(***************************************************************************)
(* DefinitionManager.filterReservedDefinitions                             *)
(***************************************************************************)
filterReservedKeepingMetaobjects(defs) ==
  LET keptField(f) == ~ isReservedMetafieldNamespace(f.namespace)
  IN  [ filtered |-> [ metafields |-> SelectSeq(defs.metafields, keptField),
                       metaobjects |-> defs.metaobjects ],
        skipped  |-> [ metafields |-> SelectSeq(defs.metafields,
                                        LAMBDA f : ~ keptField(f)),
                       metaobjects |-> << >> ] ]

filterReservedDefinitions(defs) ==
  LET keptField(f) == ~ isReservedMetafieldNamespace(f.namespace)
      keptObject(o) == ~ isReservedMetaobjectType(o.type)
  IN  [ filtered |-> [ metafields |-> SelectSeq(defs.metafields, keptField),
                       metaobjects |-> SelectSeq(defs.metaobjects, keptObject) ],
        skipped  |-> [ metafields |-> SelectSeq(defs.metafields,
                                        LAMBDA f : ~ keptField(f)),
                       metaobjects |-> SelectSeq(defs.metaobjects,
                                        LAMBDA o : ~ keptObject(o)) ] ]

(***************************************************************************)
(* DefinitionManager.updateMetaobjectReferences: a copy of the definition  *)
(* in which every validation named METAOBJECT_REFERENCE_VALIDATION_KEY     *)
(* whose value is a key of idMapping holds the mapped identifier.          *)
(* idMapping is a function from source identifiers to target identifiers.  *)
(***************************************************************************)
updateMetaobjectReferencesNever(definition, idMapping) == definition

updateMetaobjectReferencesStale(definition, idMapping) ==
  LET fallback == IF DOMAIN idMapping = {} THEN << >>
                  ELSE idMapping[CHOOSE k \in DOMAIN idMapping :
                                   \A j \in DOMAIN idMapping : k[2] <= j[2]]
      rewrite(validation) ==
        IF validation.name = METAOBJECT_REFERENCE_VALIDATION_KEY
        THEN IF validation.value \in DOMAIN idMapping
             THEN [ validation EXCEPT !.value = idMapping[validation.value] ]
             ELSE IF fallback # << >>
                  THEN [ validation EXCEPT !.value = fallback ]
                  ELSE validation
        ELSE validation
      update(field) ==
        IF Len(field.validations) > 0
        THEN [ field EXCEPT !.validations =
                 [ v \in DOMAIN field.validations |-> rewrite(field.validations[v]) ] ]
        ELSE field
  IN  [ definition EXCEPT !.fieldDefinitions =
          [ f \in DOMAIN definition.fieldDefinitions |->
              update(definition.fieldDefinitions[f]) ] ]

updateMetaobjectReferences(definition, idMapping) ==
  LET rewrite(validation) ==
        IF validation.name = METAOBJECT_REFERENCE_VALIDATION_KEY
        THEN LET oldId == validation.value
             IN  IF oldId \in DOMAIN idMapping
                 THEN [ validation EXCEPT !.value = idMapping[oldId] ]
                 ELSE validation
        ELSE validation
      update(field) ==
        IF Len(field.validations) > 0
        THEN [ field EXCEPT !.validations =
                 [ v \in DOMAIN field.validations |-> rewrite(field.validations[v]) ] ]
        ELSE field
  IN  [ definition EXCEPT !.fieldDefinitions =
          [ f \in DOMAIN definition.fieldDefinitions |->
              update(definition.fieldDefinitions[f]) ] ]

(* The object passed as definition once updateMetaobjectReferences has     *)
(* returned: the function works on a deep clone, JSON.parse(JSON.stringify *)
(* (definition)), and leaves the argument as it was.  The variant rewrites *)
(* the argument itself.                                                    *)
DefinitionUpdatedInPlace(definition, idMapping) ==
  updateMetaobjectReferences(definition, idMapping)

DefinitionAfterUpdate(definition, idMapping) == definition

(* The list after the object def, which it holds by reference, has become  *)
(* after.                                                                  *)
Aliased(list, def, after) ==
  [ i \in DOMAIN list |-> IF list[i].id = def.id THEN after ELSE list[i] ]

(***************************************************************************)
(* The input of the create mutations, as createMetaobjectDefinition and    *)
(* createMetafieldDefinition build it from a definition: the validations   *)
(* are sent as they stand in the definition given.                         *)
(***************************************************************************)
MetaobjectDefinitionInput(def) ==
  [ type |-> def.type,
    fieldDefinitions |->
      [ f \in DOMAIN def.fieldDefinitions |->
          [ key |-> def.fieldDefinitions[f].key,
            validations |->
              [ v \in DOMAIN def.fieldDefinitions[f].validations |->
                  [ name  |-> def.fieldDefinitions[f].validations[v].name,
                    value |-> def.fieldDefinitions[f].validations[v].value ] ] ] ] ]

MetafieldDefinitionInput(def) ==
  [ namespace |-> def.namespace,
    key |-> def.key,
    validations |->
      [ v \in DOMAIN def.validations |->
          [ name |-> def.validations[v].name, value |-> def.validations[v].value ] ] ]

(* The error a create or delete wrapper throws for non-empty userErrors.   *)
CreateMetaobjectError(def, userErrors) ==
  << "Failed to create metaobject definition ", def.type, ": ", userErrors >>
CreateMetafieldError(def, userErrors) ==
  << "Failed to create metafield definition ", def.namespace, "/", def.key, ": ",
     userErrors >>
DeleteMetaobjectError(def, userErrors) ==
  << "Failed to delete metaobject definition ", def.type, ": ", userErrors >>
DeleteMetafieldError(def, userErrors) ==
  << "Failed to delete metafield definition ", def.namespace, "/", def.key, ": ",
     userErrors >>

(***************************************************************************)
(* The remote store behind this.client (src/src/shopify/client.js).  A     *)
(* mutation ends in one of three ways: it succeeds, it comes back with     *)
(* userErrors (a business rejection), or the request throws (transport).   *)
(* The store rejects a create whose reference validation names an          *)
(* identifier that is not an object-definition of this store; any call may *)
(* also fail for a reason of its own (a taken type, an HTTP error), at     *)
(* most MaxFaults times in one run.                                        *)
(***************************************************************************)
NoId == << >>
Ok(id) == [ kind |-> "ok", id |-> id, userErrors |-> "", message |-> << >> ]
Rejected(userErrors) ==
  [ kind |-> "userErrors", id |-> NoId, userErrors |-> userErrors, message |-> << >> ]
Thrown(message) ==
  [ kind |-> "throw", id |-> NoId, userErrors |-> "", message |-> message ]

INVALID_REFERENCE_ERRORS == "[{\"code\":\"INVALID_OPTION\"}]"
TAKEN_ERRORS == "[{\"code\":\"TAKEN\"}]"
HTTP_NOT_FOUND == << "Shopify API request failed: HTTP 404: Not Found" >>

FaultResponses == { Rejected(TAKEN_ERRORS), Thrown(HTTP_NOT_FOUND) }

ObjectIds(store) == { d.id : d \in { e \in store : e.kind = "metaobject" } }

ReferencesOf(validations) ==
  { validations[v].value :
      v \in { w \in DOMAIN validations :
                validations[w].name = METAOBJECT_REFERENCE_VALIDATION_KEY } }

MetaobjectInputReferences(input) ==
  UNION { ReferencesOf(input.fieldDefinitions[f].validations) :
            f \in DOMAIN input.fieldDefinitions }

CreateResponses(store, references, newId, faultsSoFar) ==
  ( IF references \subseteq ObjectIds(store)
    THEN { Ok(newId) }
    ELSE { Rejected(INVALID_REFERENCE_ERRORS) } )
  \cup ( IF faultsSoFar < MaxFaults THEN FaultResponses ELSE { } )

DeleteResponses(id, faultsSoFar) ==
  { Ok(id) } \cup ( IF faultsSoFar < MaxFaults THEN FaultResponses ELSE { } )

(* The error.message the engine catches around a call: none when the call  *)
(* succeeded, the transport error as the client threw it, or the Error the *)
(* wrapper (createMetaobjectDefinition, ...) throws for the userErrors.    *)
NoError == << >>

CaughtError(response, wrapped) ==
  IF response.kind = "ok" THEN NoError
  ELSE IF response.kind = "throw" THEN response.message
  ELSE wrapped

(***************************************************************************)
(* State.                                                                  *)
(***************************************************************************)
VARIABLES
  op,                   \* the engine operation called: "copy" or "delete"
  dryRun,               \* its dryRun argument
  definitions,          \* its definitions argument (the caller's object)
  pc,                   \* position in the operation
  filtered,             \* filterReservedDefinitions(definitions).filtered
  metaobjectIdMapping,  \* source identifier -> identifier created at the target
  pendingMetaobjects,   \* copy: the list the current pass iterates
  stillPending,         \* copy: the items re-queued in the current pass
  pass,                 \* copy: pass counter
  idx,                  \* copy: position of the for loop in pendingMetaobjects
  results,              \* the results object of the operation
  proc,                 \* locals of processDefinitions while it runs
  target,               \* definitions of the store behind this.client
  nextId,               \* next identifier that store assigns
  calls,                \* the remote calls issued so far, with their responses
  faults,               \* number of calls failed by the store for its own reasons
  delays                \* the setTimeout waits taken so far

(* The state of an EntryConflictResolver and of its use. *)
VARIABLES
  globalAction,         \* this.globalAction: null, "update_all" or "skip_all"
  resolverDryRun,       \* this.dryRun of the resolver
  resolutions           \* the calls of resolveConflict and reset made so far

resolverVars == << globalAction, resolverDryRun, resolutions >>

(* The state of one copyMetaobjectEntries call. *)
VARIABLES
  sourceDefinitions,    \* its sourceDefinitions.metaobjects argument
  entryDryRun,          \* its dryRun argument
  entryPc,              \* position in the call
  defIdx,               \* position of the outer for loop
  sourceEntries,        \* the entries the inner for loop iterates
  entryIdx,             \* position of the inner for loop
  entryResults,         \* its results object
  targetEntries,        \* entries of the store behind this.client
  entryCalls,           \* the client calls issued so far, with their outcomes
  entryFaults           \* number of calls failed by the store for its own reasons

entryVars ==
  << sourceDefinitions, entryDryRun, entryPc, defIdx, sourceEntries, entryIdx,
     entryResults, targetEntries, entryCalls, entryFaults >>

(* The state of one run of the delete or the bulk command. *)
VARIABLES
  command,              \* "delete", "bulk" or "bulk_delete_copy"
  includeEntries,       \* options.includeEntries
  globalDryRun,         \* this.globalOpts.dryRun
  yes,                  \* options.yes
  answer,               \* what the operator types when the prompt asks
  confirmed,            \* what ConfirmationPrompt.confirm resolved to
  commandPc,            \* position in execute
  storeDefinitions,     \* the definitions of the two stores when the run starts
  definitionsToDelete,  \* delete: definitionsToDelete; bulk: targetFiltered
  sourceFiltered,       \* bulk: sourceFiltered
  otherStore            \* definitions of the store the running manager is not on

commandVars ==
  << command, includeEntries, globalDryRun, yes, answer, confirmed, commandPc, storeDefinitions,
     definitionsToDelete, sourceFiltered, otherStore >>

(* The state of a run that reads a manifest: the list command writes the   *)
(* report, the copy and delete commands parse a manifest and match it.     *)
VARIABLES
  manifestOrigin,   \* where the manifest comes from: "list", "text" or "exact"
  listed,           \* the definitions of the store (allDefinitions)
  content,          \* the text of the manifest, a sequence of characters
  manifest,         \* what parseContent returned
  matches,          \* what findMatchingDefinitions returned
  manifestPc

manifestVars == << manifestOrigin, listed, content, manifest, matches, manifestPc >>

(* The state of one getAllDefinitions call. *)
VARIABLES
  fetchPc,           \* position of getAllDefinitions
  remote,            \* the definitions of the store behind this.client
  inFlight,          \* the requests sent and not yet answered
  metafieldResults,  \* what the promises of metafieldPromises resolved to
  metaobjectResult,  \* the object-definitions of metaobjectResult
  failedFetches,     \* the owner types whose request failed
  fetchRequests,     \* the requests sent, in the order they were sent
  fetched            \* what getAllDefinitions returned

fetchVars ==
  << fetchPc, remote, inFlight, metafieldResults, metaobjectResult, failedFetches,
     fetchRequests, fetched >>

(* The state of a delete of one definition at the target followed by its   *)
(* creation from the source.                                               *)
VARIABLES
  recreatePc,        \* "held", "deleted" or "recreated"
  recreateSource,    \* the definition as fetched from the source
  recreateTarget     \* the definition the target holds

recreateVars == << recreatePc, recreateSource, recreateTarget >>

(* The state of one getMetaobjectEntries call of the manager. *)
VARIABLES
  pagePc,            \* "loop" or "returned"
  pagedStore,        \* the entries of the store, of every type, in its order
  allEntries,        \* allEntries
  hasNextPage,       \* hasNextPage
  pageAfter,         \* after: the cursor the next request carries
  pageRequests,      \* the requests sent, each with the pageInfo it got
  pageFailed         \* whether a request failed

pagingVars ==
  << pagePc, pagedStore, allEntries, hasNextPage, pageAfter, pageRequests, pageFailed >>

(* The state of the ConfigManager singleton and of the process environment *)
(* it reads.                                                               *)
VARIABLES
  env,               \* process.env: the value of <NAME>_STORE_TOKEN per store name
  instanceConfig,    \* this._config of the singleton instance
  staticConfig,      \* ConfigManager._config, the static field
  clients,           \* ConfigManager._clients: the token each cached client holds
  configLast,        \* the last call on the manager and what it returned
  envAtReload        \* the environment as it was at the last reload()

configVars == << env, instanceConfig, staticConfig, clients, configLast, envAtReload >>

(* Two failed creations, in the same pass and with the same remote         *)
(* outcome, of definitions that differ in their type name.                 *)
VARIABLES
  classifyPc,        \* "failed", "first" or "classified"
  typeA,             \* the type of the first definition
  typeB,             \* the type of the second definition
  remoteOutcome,     \* what the create call of either got from the remote
  failedPass,        \* the pass in which both failed
  requeuedA,         \* whether the catch re-queued the first
  requeuedB          \* whether the catch re-queued the second

classifyVars ==
  << classifyPc, typeA, typeB, remoteOutcome, failedPass, requeuedA, requeuedB >>

(* The conflict handling of the copy command. *)
VARIABLES
  conflictPc,        \* "start", "detected", "deleted" or "returned"
  conflictDryRun,    \* globalOpts.dryRun
  copyList,          \* definitionsToCopy
  targetHeld,        \* the definitions the target holds
  conflicts,         \* the target side of the conflicts found
  deletedAtTarget    \* the definitions deleted at the target

conflictVars ==
  << conflictPc, conflictDryRun, copyList, targetHeld, conflicts, deletedAtTarget >>

lateVars == << configVars, classifyVars, conflictVars >>

extraVars == << fetchVars, recreateVars, pagingVars, lateVars >>

restVars == << commandVars, manifestVars, extraVars >>

managerVars ==
  << op, dryRun, definitions, pc, filtered, metaobjectIdMapping, pendingMetaobjects,
     stillPending, pass, idx, results, proc, target, nextId, calls, faults,
     delays >>

nonManagerVars == << resolverVars, entryVars, restVars >>

vars == << managerVars, nonManagerVars >>

ZeroResults ==
  [ metafields  |-> [ success |-> 0, errors |-> << >> ],
    metaobjects |-> [ success |-> 0, errors |-> << >> ] ]

NoDefinitions == [ metafields |-> << >>, metaobjects |-> << >> ]

EmptyMapping == [ k \in { } |-> NoId ]

IdleProc ==
  [ definitions |-> NoDefinitions, results |-> ZeroResults, phase |-> 0, idx |-> 0 ]

(* The store a delete runs against holds the definitions it was asked to   *)
(* delete (they were read from it); a copy runs against an empty target.   *)
StoreHolding(defs) ==
  { [ kind |-> "metaobject", id |-> defs.metaobjects[i].id,
      name |-> << defs.metaobjects[i].type >> ] : i \in DOMAIN defs.metaobjects }
  \cup
  { [ kind |-> "metafield", id |-> defs.metafields[k].id,
      name |-> << defs.metafields[k].namespace, defs.metafields[k].key >> ] :
        k \in DOMAIN defs.metafields }

null == "null"

(* A resolver nobody uses. *)
ResolverIdle ==
  /\ globalAction = null
  /\ resolverDryRun = FALSE
  /\ resolutions = << >>

ZeroEntryResults == [ success |-> 0, errors |-> << >>, skipped |-> 0 ]

(* No copyMetaobjectEntries call is running. *)
EntriesIdle ==
  /\ sourceDefinitions = << >>
  /\ entryDryRun = FALSE
  /\ entryPc = "idle"
  /\ defIdx = 0
  /\ sourceEntries = << >>
  /\ entryIdx = 0
  /\ entryResults = ZeroEntryResults
  /\ targetEntries = { }
  /\ entryCalls = << >>
  /\ entryFaults = 0

(* No command is running. *)
CommandIdle ==
  /\ command = "none"
  /\ includeEntries = FALSE
  /\ globalDryRun = FALSE
  /\ yes = FALSE
  /\ answer = null
  /\ confirmed = FALSE
  /\ commandPc = "idle"
  /\ storeDefinitions = [ from |-> NoDefinitions, to |-> NoDefinitions ]
  /\ definitionsToDelete = NoDefinitions
  /\ sourceFiltered = NoDefinitions
  /\ otherStore = { }

NoMatches == [ metafields |-> << >>, metaobjects |-> << >>, notFound |-> << >> ]

(* No manifest is being read. *)
ManifestIdle ==
  /\ manifestOrigin = "none"
  /\ listed = NoDefinitions
  /\ content = << >>
  /\ manifest = NoDefinitions
  /\ matches = NoMatches
  /\ manifestPc = "idle"

(* No getAllDefinitions call is running. *)
FetchIdle ==
  /\ fetchPc = "idle"
  /\ remote = NoDefinitions
  /\ inFlight = { }
  /\ metafieldResults = << >>
  /\ metaobjectResult = null
  /\ failedFetches = { }
  /\ fetchRequests = << >>
  /\ fetched = null

RecreateIdle ==
  /\ recreatePc = "idle"
  /\ recreateSource = [ kind |-> "none" ]
  /\ recreateTarget = [ kind |-> "none" ]

PagingIdle ==
  /\ pagePc = "idle"
  /\ pagedStore = << >>
  /\ allEntries = << >>
  /\ hasNextPage = FALSE
  /\ pageAfter = << >>
  /\ pageRequests = << >>
  /\ pageFailed = FALSE

ConfigStoreNames == { "staging", "production" }

NoValue == ""

NoCall == [ call |-> "none", name |-> NoValue, threw |-> FALSE, stores |-> { },
            token |-> NoValue ]

(* No ConfigManager exists. *)
ConfigIdle ==
  /\ env = [ n \in ConfigStoreNames |-> NoValue ]
  /\ instanceConfig = << >>
  /\ staticConfig = << >>
  /\ clients = [ n \in ConfigStoreNames |-> NoValue ]
  /\ configLast = NoCall
  /\ envAtReload = << >>

ClassifyIdle ==
  /\ classifyPc = "idle"
  /\ typeA = NoValue
  /\ typeB = NoValue
  /\ remoteOutcome = NoValue
  /\ failedPass = 0
  /\ requeuedA = FALSE
  /\ requeuedB = FALSE

ConflictIdle ==
  /\ conflictPc = "idle"
  /\ conflictDryRun = FALSE
  /\ copyList = NoDefinitions
  /\ targetHeld = NoDefinitions
  /\ conflicts = NoDefinitions
  /\ deletedAtTarget = NoDefinitions

LateIdle == ConfigIdle /\ ClassifyIdle /\ ConflictIdle

ExtraIdle == FetchIdle /\ RecreateIdle /\ PagingIdle /\ LateIdle

RestIdle == CommandIdle /\ ManifestIdle /\ ExtraIdle

NonManagerIdle == ResolverIdle /\ EntriesIdle /\ RestIdle

(* No engine operation is running. *)
ManagerIdle ==
  /\ op = "none"
  /\ dryRun = FALSE
  /\ definitions = NoDefinitions
  /\ pc = "idle"
  /\ filtered = NoDefinitions
  /\ metaobjectIdMapping = EmptyMapping
  /\ pendingMetaobjects = << >>
  /\ stillPending = << >>
  /\ pass = 0
  /\ idx = 0
  /\ results = ZeroResults
  /\ proc = IdleProc
  /\ target = { }
  /\ nextId = 1
  /\ calls = << >>
  /\ faults = 0
  /\ delays = << >>

Init ==
  \E call \in ObjectCalls \cup FieldCalls \cup ChainCalls :
    /\ op = call.op
    /\ dryRun = call.dryRun
    /\ definitions = call.definitions
    /\ pc = "called"
    /\ filtered = NoDefinitions
    /\ metaobjectIdMapping = EmptyMapping
    /\ pendingMetaobjects = << >>
    /\ stillPending = << >>
    /\ pass = 0
    /\ idx = 0
    /\ results = ZeroResults
    /\ proc = IdleProc
    /\ target = IF call.op = "delete" THEN StoreHolding(call.definitions) ELSE { }
    /\ nextId = 1
    /\ calls = << >>
    /\ faults = 0
    /\ delays = << >>
    /\ NonManagerIdle

(***************************************************************************)
(* copyDefinitionsWithDependencies                                         *)
(***************************************************************************)

(* The while condition of the pass loop. *)
PassLoopContinues(pending, passNumber) ==
  Len(pending) > 0 /\ passNumber < MAX_DEPENDENCY_PASSES

(* The catch of a failed creation re-queues the item for the next pass.    *)
RetryInNextPass(errorMessage, passNumber) ==
  isDependencyError(errorMessage) /\ passNumber < MAX_DEPENDENCY_PASSES

(* ... and otherwise records it in results.metaobjects.errors.             *)
RecordFailureAlways(errors, def, errorMessage, retry) ==
  Append(errors, [ definition |-> def.type, error |-> errorMessage ])

RecordFailure(errors, def, errorMessage, retry) ==
  IF retry THEN errors
  ELSE Append(errors, [ definition |-> def.type, error |-> errorMessage ])

(* A for loop goes on with the next item after the catch of a failed one.  *)
AbortBatchAfterFailure(i, n) == n + 1

RetryItemAfterFailure(i, n) == i

NextItemAfterFailure(i, n) == i + 1

(* Where the operation goes after the dryRun test. *)
IgnoreDryRun(isDryRun, running) == running

AfterDryRunTest(isDryRun, running) == IF isDryRun THEN "done" ELSE running

MapSetAlone(mapping, key, value) == [ k \in { key } |-> value ]

MapSetNothing(mapping, key, value) == mapping

(* metaobjectIdMapping.set(oldId, newId) *)
MapSet(mapping, key, value) ==
  [ k \in DOMAIN mapping \cup { key } |-> IF k = key THEN value ELSE mapping[k] ]

(* The failures reported after the loop for what is still pending. *)
UnresolvedFailures(pending) ==
  [ i \in DOMAIN pending |->
      [ definition |-> pending[i].type, error |-> UNRESOLVED_MESSAGE ] ]

CopyStart ==
  /\ pc = "called"
  /\ op = "copy"
  /\ filtered' = filterReservedDefinitions(definitions).filtered
  /\ results' = ZeroResults
  /\ metaobjectIdMapping' = EmptyMapping
  /\ pendingMetaobjects' =
       IF AfterDryRunTest(dryRun, "copy_loop") = "done" THEN << >>
       ELSE filtered'.metaobjects
  /\ pass' = 0
  /\ pc' = AfterDryRunTest(dryRun, "copy_loop")
  /\ UNCHANGED << op, dryRun, definitions, stillPending, idx, proc, target, nextId,
                  calls, faults, delays >>
  /\ UNCHANGED nonManagerVars

CopyPassBegin ==
  /\ pc = "copy_loop"
  /\ PassLoopContinues(pendingMetaobjects, pass)
  /\ pass' = pass + 1
  /\ stillPending' = << >>
  /\ idx' = 1
  /\ pc' = "copy_pass"
  /\ UNCHANGED << op, dryRun, definitions, filtered, metaobjectIdMapping,
                  pendingMetaobjects, results, proc, target, nextId, calls, faults,
                  delays >>
  /\ UNCHANGED nonManagerVars

(* One iteration of the for loop of a pass: rewrite the references,        *)
(* create, and handle the outcome.                                         *)
PASS_DELAY_MS == 2000

CREATION_DELAY_MS == 100

(* The wait that follows a created object-definition: it stands in the try *)
(* block after the create call, so a call that threw never reaches it.     *)
CreationDelay(passNumber, afterCall) ==
  [ kind |-> "creation", pass |-> passNumber, after |-> afterCall,
    ms |-> CREATION_DELAY_MS ]

(* The wait between two passes.                                            *)
PassDelay(passNumber, afterCall) ==
  [ kind |-> "pass", pass |-> passNumber, after |-> afterCall, ms |-> PASS_DELAY_MS ]

PassDelayAlways(pending, passNumber) == TRUE

(* The test that guards the wait between two passes, on the list the pass  *)
(* just left pending.                                                      *)
PassDelayTaken(pending, passNumber) ==
  Len(pending) > 0 /\ passNumber < MAX_DEPENDENCY_PASSES

CopyMetaobject ==
  /\ pc = "copy_pass"
  /\ idx <= Len(pendingMetaobjects)
  /\ LET def == pendingMetaobjects[idx]
         updatedDef == updateMetaobjectReferences(def, metaobjectIdMapping)
         input == MetaobjectDefinitionInput(updatedDef)
         after == DefinitionAfterUpdate(def, metaobjectIdMapping)
     IN  \E response \in CreateResponses(target, MetaobjectInputReferences(input),
                                         Id("target", nextId), faults) :
           /\ calls' = Append(calls,
                [ call |-> "createMetaobject", item |-> def.id, input |-> input,
                  pass |-> pass, response |-> response,
                  error |-> CaughtError(response,
                              CreateMetaobjectError(updatedDef, response.userErrors)) ])
           /\ faults' = IF response \in FaultResponses THEN faults + 1 ELSE faults
           /\ definitions' = [ definitions EXCEPT !.metaobjects = Aliased(@, def, after) ]
           /\ filtered' = [ filtered EXCEPT !.metaobjects = Aliased(@, def, after) ]
           /\ pendingMetaobjects' = Aliased(pendingMetaobjects, def, after)
           /\ IF response.kind = "ok"
              THEN /\ target' = target \cup { [ kind |-> "metaobject", id |-> response.id,
                                                name |-> << input.type >> ] }
                   /\ nextId' = nextId + 1
                   /\ metaobjectIdMapping' =
                        MapSet(metaobjectIdMapping, def.id, response.id)
                   /\ results' = [ results EXCEPT !.metaobjects.success = @ + 1 ]
                   /\ stillPending' = stillPending
                   /\ delays' = Append(delays, CreationDelay(pass, Len(calls) + 1))
                   /\ idx' = idx + 1
              ELSE LET error == CaughtError(response,
                                  CreateMetaobjectError(updatedDef, response.userErrors))
                       retry == RetryInNextPass(error, pass)
                   IN  /\ stillPending' =
                            IF retry THEN Append(stillPending, after) ELSE stillPending
                       /\ results' = [ results EXCEPT !.metaobjects.errors =
                                         RecordFailure(@, def, error, retry) ]
                       /\ idx' = NextItemAfterFailure(idx, Len(pendingMetaobjects))
                       /\ UNCHANGED << target, nextId, metaobjectIdMapping, delays >>
  /\ UNCHANGED << op, dryRun, pc, pass, proc >>
  /\ UNCHANGED nonManagerVars

CopyPassEnd ==
  /\ pc = "copy_pass"
  /\ idx > Len(pendingMetaobjects)
  /\ pendingMetaobjects' = stillPending
  /\ delays' = IF PassDelayTaken(stillPending, pass)
               THEN Append(delays, PassDelay(pass, Len(calls)))
               ELSE delays
  /\ pc' = "copy_loop"
  /\ UNCHANGED << op, dryRun, definitions, filtered, metaobjectIdMapping, stillPending,
                  pass, idx, results, proc, target, nextId, calls, faults >>
  /\ UNCHANGED nonManagerVars

(* After the loop: report what is still pending, then hand the             *)
(* field-definitions to processDefinitions.                                *)
CopyReport ==
  /\ pc = "copy_loop"
  /\ ~ PassLoopContinues(pendingMetaobjects, pass)
  /\ results' = [ results EXCEPT !.metaobjects.errors =
                    @ \o UnresolvedFailures(pendingMetaobjects) ]
  /\ proc' = [ definitions |-> [ metafields |-> filtered.metafields,
                                 metaobjects |-> << >> ],
               results |-> ZeroResults, phase |-> 1, idx |-> 1 ]
  /\ pc' = "process"
  /\ UNCHANGED << op, dryRun, definitions, filtered, metaobjectIdMapping,
                  pendingMetaobjects, stillPending, pass, idx, target, nextId, calls,
                  faults, delays >>
  /\ UNCHANGED nonManagerVars

(***************************************************************************)
(* processDefinitions: the object-definitions first, then the              *)
(* field-definitions, each item in a try/catch of its own.  operation is   *)
(* the one the caller passed: for copy the metaobject operation is a       *)
(* no-op and the metafield one creates; for delete both delete.            *)
(***************************************************************************)
ProcessPhasesFieldsFirst == << "metafields", "metaobjects" >>

ProcessPhases == << "metaobjects", "metafields" >>

InPhase(kind) ==
  /\ pc = "process"
  /\ proc.phase \in DOMAIN ProcessPhases
  /\ ProcessPhases[proc.phase] = kind

ProcessMetaobject ==
  /\ InPhase("metaobjects")
  /\ proc.idx <= Len(proc.definitions.metaobjects)
  /\ LET def == proc.definitions.metaobjects[proc.idx]
         n == Len(proc.definitions.metaobjects)
     IN  IF op = "copy"
         THEN /\ proc' = [ proc EXCEPT !.results.metaobjects.success = @ + 1,
                                       !.idx = @ + 1 ]
              /\ UNCHANGED << target, calls, faults >>
         ELSE \E response \in DeleteResponses(def.id, faults) :
                /\ calls' = Append(calls,
                     [ call |-> "deleteMetaobject", item |-> def.id,
                       input |-> [ id |-> def.id ], pass |-> 0, response |-> response,
                       error |-> CaughtError(response,
                                   DeleteMetaobjectError(def, response.userErrors)) ])
                /\ faults' = IF response \in FaultResponses THEN faults + 1 ELSE faults
                /\ IF response.kind = "ok"
                   THEN /\ target' = { d \in target : d.id # def.id }
                        /\ proc' = [ proc EXCEPT !.results.metaobjects.success = @ + 1,
                                                 !.idx = @ + 1 ]
                   ELSE /\ target' = target
                        /\ proc' = [ proc EXCEPT
                             !.results.metaobjects.errors =
                                Append(@, [ definition |-> def.type,
                                            error |-> CaughtError(response,
                                               DeleteMetaobjectError(def,
                                                  response.userErrors)) ]),
                             !.idx = NextItemAfterFailure(@, n) ]
  /\ UNCHANGED << op, dryRun, definitions, pc, filtered, metaobjectIdMapping,
                  pendingMetaobjects, stillPending, pass, idx, results, nextId,
                  delays >>
  /\ UNCHANGED nonManagerVars

ProcessMetafield ==
  /\ InPhase("metafields")
  /\ proc.idx <= Len(proc.definitions.metafields)
  /\ LET def == proc.definitions.metafields[proc.idx]
         n == Len(proc.definitions.metafields)
         identifier == << def.namespace, "/", def.key >>
         input == IF op = "copy" THEN MetafieldDefinitionInput(def)
                  ELSE [ id |-> def.id ]
         responses ==
           IF op = "copy"
           THEN CreateResponses(target, ReferencesOf(input.validations),
                                Id("target", nextId), faults)
           ELSE DeleteResponses(def.id, faults)
     IN  \E response \in responses :
           LET error == CaughtError(response,
                          IF op = "copy"
                          THEN CreateMetafieldError(def, response.userErrors)
                          ELSE DeleteMetafieldError(def, response.userErrors))
           IN  /\ calls' = Append(calls,
                    [ call |-> IF op = "copy" THEN "createMetafield"
                               ELSE "deleteMetafield",
                      item |-> def.id, input |-> input, pass |-> 0,
                      response |-> response, error |-> error ])
               /\ faults' = IF response \in FaultResponses THEN faults + 1 ELSE faults
               /\ IF response.kind = "ok"
                  THEN /\ target' =
                            IF op = "copy"
                            THEN target \cup { [ kind |-> "metafield",
                                                 id |-> response.id,
                                                 name |-> << def.namespace, def.key >> ] }
                            ELSE { d \in target : d.id # def.id }
                       /\ nextId' = IF op = "copy" THEN nextId + 1 ELSE nextId
                       /\ proc' = [ proc EXCEPT !.results.metafields.success = @ + 1,
                                                !.idx = @ + 1 ]
                  ELSE /\ UNCHANGED << target, nextId >>
                       /\ proc' = [ proc EXCEPT
                            !.results.metafields.errors =
                               Append(@, [ definition |-> identifier, error |-> error ]),
                            !.idx = NextItemAfterFailure(@, n) ]
  /\ UNCHANGED << op, dryRun, definitions, pc, filtered, metaobjectIdMapping,
                  pendingMetaobjects, stillPending, pass, idx, results, delays >>
  /\ UNCHANGED nonManagerVars

(* The end of one of the two for loops. *)
ProcessPhaseEnd ==
  /\ pc = "process"
  /\ proc.phase \in DOMAIN ProcessPhases
  /\ proc.idx > Len(proc.definitions[ProcessPhases[proc.phase]])
  /\ proc' = [ proc EXCEPT !.phase = @ + 1, !.idx = 1 ]
  /\ UNCHANGED << op, dryRun, definitions, pc, filtered, metaobjectIdMapping,
                  pendingMetaobjects, stillPending, pass, idx, results, target, nextId,
                  calls, faults, delays >>
  /\ UNCHANGED nonManagerVars

(* return results: copy keeps its own metaobjects results and takes the    *)
(* metafields results; delete returns the results as they are.             *)
ProcessReturn ==
  /\ pc = "process"
  /\ proc.phase > Len(ProcessPhases)
  /\ results' = IF op = "copy"
                THEN [ results EXCEPT !.metafields = proc.results.metafields ]
                ELSE proc.results
  /\ pc' = "done"
  /\ UNCHANGED << op, dryRun, definitions, filtered, metaobjectIdMapping,
                  pendingMetaobjects, stillPending, pass, idx, proc, target, nextId,
                  calls, faults, delays >>
  /\ UNCHANGED nonManagerVars

(***************************************************************************)
(* deleteDefinitions                                                       *)
(***************************************************************************)
DeleteStart ==
  /\ pc = "called"
  /\ op = "delete"
  /\ filtered' = filterReservedDefinitions(definitions).filtered
  /\ results' = ZeroResults
  /\ proc' = [ definitions |-> filtered', results |-> ZeroResults,
               phase |-> 1, idx |-> 1 ]
  /\ pc' = AfterDryRunTest(dryRun, "process")
  /\ UNCHANGED << op, dryRun, definitions, metaobjectIdMapping, pendingMetaobjects,
                  stillPending, pass, idx, target, nextId, calls, faults, delays >>
  /\ UNCHANGED nonManagerVars

Next ==
  \/ CopyStart
  \/ CopyPassBegin
  \/ CopyMetaobject
  \/ CopyPassEnd
  \/ CopyReport
  \/ DeleteStart
  \/ ProcessMetaobject
  \/ ProcessMetafield
  \/ ProcessPhaseEnd
  \/ ProcessReturn

Spec == Init /\ [][Next]_vars

(* The engine is inside the for loop of a pass, at an item: the guard of   *)
(* CopyMetaobject, whose create call always has an outcome to take.        *)
CreateAwaited == pc = "copy_pass" /\ idx <= Len(pendingMetaobjects)

(* The steps of the engine other than the create call of a pass. *)
EngineStep ==
  \/ CopyStart
  \/ CopyPassBegin
  \/ CopyPassEnd
  \/ CopyReport
  \/ DeleteStart
  \/ ProcessMetaobject
  \/ ProcessMetafield
  \/ ProcessPhaseEnd
  \/ ProcessReturn

(* Every remote call returns (with an answer or an error), and so does     *)
(* every wait: a step that can be taken is taken.  The fairness of the     *)
(* create call of a pass is weak fairness written out, with the guard of   *)
(* the action for its enabling condition.                                  *)
SpecReturning ==
  /\ Init
  /\ [][Next]_vars
  /\ WF_vars(EngineStep)
  /\ ( []<>(~ CreateAwaited) \/ []<><<CopyMetaobject>>_vars )

(***************************************************************************)
(* Properties.  They read the call record: calls[i].item is the            *)
(* identifier of the input definition call i was issued for,               *)
(* calls[i].input what was sent, calls[i].error the error the engine       *)
(* caught for it.                                                          *)
(***************************************************************************)
InputObjects == Range(definitions.metaobjects)
InputFields == Range(definitions.metafields)

CreatedAt(i) ==
  calls[i].call = "createMetaobject" /\ calls[i].response.kind = "ok"

(* The positions (sub-field, validation) of the reference validations of   *)
(* an object-definition that hold the identifier of an input definition.   *)
ReferencePlaces(a) ==
  { place \in UNION { { << f, v >> : v \in DOMAIN a.fieldDefinitions[f].validations } :
                        f \in DOMAIN a.fieldDefinitions } :
      LET validation == a.fieldDefinitions[place[1]].validations[place[2]]
      IN  /\ validation.name = "metaobject_definition_id"
          /\ \E b \in InputObjects : b.id = validation.value }

ValueAt(fieldDefinitions, place) ==
  fieldDefinitions[place[1]].validations[place[2]].value

(* C1: every successful create of an object-definition A sends, for each   *)
(* reference validation of A holding the source identifier of an input     *)
(* object-definition B, the target identifier that B's creation returned   *)
(* earlier in this call, never B's source identifier.                      *)
C1_ReferencesRewritten ==
  \A i \in DOMAIN calls :
    CreatedAt(i) =>
      \A a \in InputObjects :
        a.id = calls[i].item =>
          \A place \in ReferencePlaces(a) :
            LET old == ValueAt(a.fieldDefinitions, place)
                sent == ValueAt(calls[i].input.fieldDefinitions, place)
            IN  /\ sent # old
                /\ \E j \in 1..(i - 1) :
                     /\ CreatedAt(j)
                     /\ calls[j].item = old
                     /\ calls[j].response.id = sent

(* A was listed before B, failed in pass 1 and was created in a later pass *)
(* with the rewritten reference.                                           *)
C1_Witness ==
  \E i \in DOMAIN calls :
    /\ CreatedAt(i)
    /\ calls[i].pass > 1
    /\ \E a \in InputObjects :
         /\ a.id = calls[i].item
         /\ ReferencePlaces(a) # { }

(* A dependency chain: the definitions can be ranked so that the first     *)
(* references nothing and each other one references exactly the one        *)
(* ranked before it; none is of a reserved type.                           *)
ReferencedIds(a) ==
  UNION { ReferencesOf(a.fieldDefinitions[f].validations) :
            f \in DOMAIN a.fieldDefinitions }

IsDependencyChain(objs) ==
  LET n == Len(objs)
  IN  /\ n >= 1
      /\ \A i \in 1..n : \E k \in DOMAIN PlainTypes : objs[i].type = PlainTypes[k]
      /\ \E rank \in [ 1..n -> 1..n ] :
           /\ \A i, j \in 1..n : i # j => rank[i] # rank[j]
           /\ \A i \in 1..n :
                ReferencedIds(objs[i]) =
                  IF rank[i] = 1 THEN { }
                  ELSE { objs[j].id : j \in { k \in 1..n : rank[k] = rank[i] - 1 } }

(* The call has returned from a copy of a dependency chain and the target  *)
(* failed no call except for a reference it could not resolve.             *)
ChainCopied(n) ==
  /\ pc = "done"
  /\ op = "copy"
  /\ ~ dryRun
  /\ faults = 0
  /\ Len(definitions.metaobjects) = n
  /\ IsDependencyChain(definitions.metaobjects)

AllCreated ==
  /\ results.metaobjects.success = Len(definitions.metaobjects)
  /\ results.metaobjects.errors = << >>

(* C2 as stated: a chain of N <= MAX_DEPENDENCY_PASSES + 1 = 4 definitions *)
(* in any list order ends with all N created.                              *)
C2_ChainOfFourConverges ==
  \A n \in 1..4 : ChainCopied(n) => AllCreated

(* C2 amended: a chain of N <= MAX_DEPENDENCY_PASSES = 3 definitions in    *)
(* any list order ends with all N created (metaobjects.success = N, no     *)
(* errors).                                                                *)
C2_ChainOfThreeConverges ==
  \A n \in 1..3 : ChainCopied(n) => AllCreated

(* A chain of three listed in reverse order took all three passes.         *)
C2_Witness ==
  /\ ChainCopied(3)
  /\ pass = 3
  /\ AllCreated

(* C3: a definition whose creation still fails with a dependency error in  *)
(* the last pass is in metaobjects.errors with the standard message.       *)
C3_UnresolvedReported ==
  pc = "done" =>
    \A i \in DOMAIN calls :
      ( /\ calls[i].call = "createMetaobject"
        /\ calls[i].pass = 3
        /\ calls[i].response = Rejected(INVALID_REFERENCE_ERRORS) )
      => \E e \in Range(results.metaobjects.errors) :
           /\ e.definition = calls[i].input.type
           /\ e.error = UNRESOLVED_MESSAGE

(* Reserved by name, as the claim states it: a namespace equal to a        *)
(* reserved namespace or starting with one followed by "--"; a type        *)
(* starting with "shopify--".                                              *)
ReservedNamespaceByName(namespace) ==
  \E r \in { "shopify", "shopify--discovery",
             "shopify--discovery--product_search_boost",
             "shopify--discovery--product_recommendation" } :
     \/ namespace = r
     \/ StartsWith(Chars[namespace], Chars[r] \o << "-", "-" >>)

ReservedTypeByName(type) ==
  StartsWith(Chars[type], << "s", "h", "o", "p", "i", "f", "y", "-", "-" >>)

ReservedItems ==
  { o.id : o \in { x \in InputObjects : ReservedTypeByName(x.type) } }
    \cup { f.id : f \in { x \in InputFields : ReservedNamespaceByName(x.namespace) } }

OrdinaryObjects == { o \in InputObjects : ~ ReservedTypeByName(o.type) }
OrdinaryFields == { f \in InputFields : ~ ReservedNamespaceByName(f.namespace) }

Counted(r) == r.success + Len(r.errors)

(* C4: no remote call is issued for a reserved definition, no error names  *)
(* one, and when a call that is not a dry run returns, success plus errors *)
(* of each kind count the definitions that are not reserved.               *)
C4_ReservedExcluded ==
  /\ \A i \in DOMAIN calls : calls[i].item \notin ReservedItems
  /\ \A e \in Range(results.metaobjects.errors) : ~ ReservedTypeByName(e.definition)
  /\ \A e \in Range(results.metafields.errors) : ~ ReservedNamespaceByName(e.definition[1])
  /\ (pc = "done" /\ ~ dryRun) =>
       /\ Counted(results.metaobjects) = Cardinality(OrdinaryObjects)
       /\ Counted(results.metafields) = Cardinality(OrdinaryFields)

(* A run that is not a dry run returned, given a reserved definition next  *)
(* to others for which calls were issued.                                  *)
C4_Witness ==
  /\ pc = "done"
  /\ ~ dryRun
  /\ ReservedItems # { }
  /\ calls # << >>

IsObjectCall(c) == c.call \in { "createMetaobject", "deleteMetaobject" }
IsFieldCall(c) == c.call \in { "createMetafield", "deleteMetafield" }

ObjectCreated(o) ==
  \E i \in DOMAIN calls : CreatedAt(i) /\ calls[i].item = o.id
ObjectFailed(o) ==
  \E e \in Range(results.metaobjects.errors) : e.definition = o.type

(* C5: every object-definition call precedes every field-definition call   *)
(* (create calls in a copy, delete calls in a delete), and once a          *)
(* field-definition create call is issued every object-definition that is  *)
(* not reserved is created or recorded as failed.                          *)
C5_ObjectsBeforeFields ==
  /\ \A i, j \in DOMAIN calls :
       (IsFieldCall(calls[i]) /\ IsObjectCall(calls[j])) => j < i
  /\ (\E i \in DOMAIN calls : calls[i].call = "createMetafield") =>
       \A o \in OrdinaryObjects : ObjectCreated(o) \/ ObjectFailed(o)

(* A copy issued a field-definition create after an object-definition was  *)
(* retried over several passes.                                            *)
C5_Witness ==
  \E i, j \in DOMAIN calls :
    /\ calls[i].call = "createMetaobject"
    /\ calls[i].pass > 1
    /\ calls[j].call = "createMetafield"

(* C6: a create call is issued only for an object-definition that is       *)
(* neither created nor recorded as failed; when the copy returns each      *)
(* object-definition that is not reserved is either created or failed, not *)
(* both, and success + |errors| is their number.                           *)
C6_Step ==
  (Len(calls') = Len(calls) + 1 /\ calls'[Len(calls')].call = "createMetaobject") =>
     \A o \in InputObjects :
        o.id = calls'[Len(calls')].item => ~ ObjectCreated(o) /\ ~ ObjectFailed(o)

C6_Returned ==
  (pc = "done" /\ op = "copy" /\ ~ dryRun) =>
     /\ \A o \in OrdinaryObjects : ObjectCreated(o) # ObjectFailed(o)
     /\ Counted(results.metaobjects) = Cardinality(OrdinaryObjects)
     /\ results.metaobjects.success =
          Cardinality({ o \in OrdinaryObjects : ObjectCreated(o) })

C6_TerminalStates == [][C6_Step]_vars /\ []C6_Returned

(* A copy returned with one definition created in a second pass and        *)
(* another one failed.                                                     *)
C6_Witness ==
  /\ pc = "done"
  /\ op = "copy"
  /\ results.metaobjects.success > 0
  /\ results.metaobjects.errors # << >>
  /\ pass > 1

(* The error message contains a dependency substring, case-insensitively.  *)
MentionsDependency(message) ==
  LET text == ToLowerCase(MessageText(message))
  IN  \E p \in { "not found", "does not exist", "metaobject_reference",
                 "invalid reference", "invalid_option",
                 "validations must be a valid metaobject" } :
         Includes(text, Chars[p])

(* C7: a failed object-definition creation is re-queued exactly when its   *)
(* message mentions a dependency and the pass number is below 3; otherwise *)
(* it is appended to metaobjects.errors with that message.                 *)
C7_Step ==
  LET c == calls'[Len(calls')]
      def == pendingMetaobjects[idx]
  IN  ( /\ Len(calls') = Len(calls) + 1
        /\ c.call = "createMetaobject"
        /\ c.error # NoError )
      => IF MentionsDependency(c.error) /\ c.pass < 3
         THEN /\ stillPending' = Append(stillPending, def)
              /\ results'.metaobjects.errors = results.metaobjects.errors
         ELSE /\ stillPending' = stillPending
              /\ results'.metaobjects.errors =
                   Append(results.metaobjects.errors,
                          [ definition |-> def.type, error |-> c.error ])

C7_RetryClassification == [][C7_Step]_vars

(* A transport error whose text matches only after lower-casing was        *)
(* re-queued, and a dependency error of the last pass was recorded.        *)
C7_Witness ==
  /\ \E i \in DOMAIN calls :
       /\ calls[i].call = "createMetaobject"
       /\ calls[i].error = HTTP_NOT_FOUND
       /\ calls[i].pass < 3
       /\ \E j \in DOMAIN calls : j > i /\ calls[j].item = calls[i].item
  /\ \E i \in DOMAIN calls :
       /\ calls[i].call = "createMetaobject"
       /\ calls[i].pass = 3
       /\ MentionsDependency(calls[i].error)
       /\ \E e \in Range(results.metaobjects.errors) : e.error = calls[i].error

(* C8: a field-definition create call never carries, in a reference        *)
(* validation, the source identifier of an object-definition created       *)
(* earlier in this call: it carries the target identifier of the           *)
(* remapping table instead.                                                *)
C8_FieldReferencesRemapped ==
  \A i \in DOMAIN calls :
    calls[i].call = "createMetafield" =>
      \A v \in DOMAIN calls[i].input.validations :
        LET validation == calls[i].input.validations[v]
        IN  validation.name = "metaobject_definition_id" =>
              validation.value \notin DOMAIN metaobjectIdMapping

InitialTarget == IF op = "delete" THEN StoreHolding(definitions) ELSE { }

(* C9: with dryRun no remote call is issued, the store is left as it was,  *)
(* and the call returns success = 0 and no errors for both kinds.          *)
C9_DryRunHasNoEffect ==
  dryRun =>
    /\ calls = << >>
    /\ target = InitialTarget
    /\ pc = "done" => results = ZeroResults

(* A dry run returned that was given definitions that are not reserved.    *)
C9_Witness ==
  /\ dryRun
  /\ pc = "done"
  /\ OrdinaryObjects # { }
  /\ OrdinaryFields # { }

LastCallFor(item) ==
  CHOOSE i \in DOMAIN calls :
    /\ calls[i].item = item
    /\ \A j \in DOMAIN calls : calls[j].item = item => j <= i

Attempted(item) == \E i \in DOMAIN calls : calls[i].item = item

(* C10: when a call that is not a dry run returns, every definition that   *)
(* is not reserved was attempted, whatever failed before it, and every     *)
(* definition whose last attempt failed is in the errors list of its kind  *)
(* with the error caught.                                                  *)
C10_FailuresRecordedBatchContinues ==
  (pc = "done" /\ ~ dryRun) =>
     /\ \A o \in OrdinaryObjects :
          /\ Attempted(o.id)
          /\ calls[LastCallFor(o.id)].error # NoError =>
               \E e \in Range(results.metaobjects.errors) :
                  e.definition = o.type /\ e.error = calls[LastCallFor(o.id)].error
     /\ \A f \in OrdinaryFields :
          /\ Attempted(f.id)
          /\ calls[LastCallFor(f.id)].error # NoError =>
               \E e \in Range(results.metafields.errors) :
                  /\ e.definition = << f.namespace, "/", f.key >>
                  /\ e.error = calls[LastCallFor(f.id)].error

(* A call returned after a transport error on one item and a business      *)
(* rejection on another, each followed by the attempt of the next item.    *)
C10_Witness ==
  /\ pc = "done"
  /\ \E i, j \in DOMAIN calls :
       /\ calls[i].response.kind = "throw"
       /\ calls[j].response.kind = "userErrors"
       /\ i + 1 \in DOMAIN calls
       /\ calls[i + 1].item # calls[i].item

(* C11: within one operation at most one field-definition create call and  *)
(* at most one delete call is issued for an item, whatever the outcome of  *)
(* the call was.                                                           *)
C11_NoRetryOutsidePassLoop ==
  \A i, j \in DOMAIN calls :
    ( /\ i # j
      /\ calls[i].call # "createMetaobject"
      /\ calls[j].call # "createMetaobject" )
    => calls[i].item # calls[j].item

(* A field-definition create and a delete have failed with a message that  *)
(* mentions a dependency, and the operation went on to its end.            *)
C11_Witness ==
  /\ pc = "done"
  /\ \E i \in DOMAIN calls :
       /\ calls[i].call \in { "createMetafield", "deleteMetafield", "deleteMetaobject" }
       /\ MentionsDependency(calls[i].error)

(* C20: copyDefinitionsWithDependencies never changes the definitions it   *)
(* was called with: no step of a copy changes an input list or one of the  *)
(* definition objects in it.                                               *)
C20_InputNeverMutated == [][op = "copy" => definitions' = definitions]_vars

(* A definition was retried in a later pass and created there with its     *)
(* reference rewritten to an identifier of the target.                     *)
C20_Witness ==
  /\ op = "copy"
  /\ pc = "done"
  /\ \E i, j \in DOMAIN calls :
       /\ calls[i].call = "createMetaobject"
       /\ calls[j].call = "createMetaobject"
       /\ calls[i].item = calls[j].item
       /\ calls[i].pass < calls[j].pass
       /\ calls[j].response.kind = "ok"
       /\ MetaobjectInputReferences(calls[j].input) # { }
       /\ \A id \in MetaobjectInputReferences(calls[j].input) : id[1] = "target"

(* The call has returned from a copy of font and typeface, in that order,  *)
(* typeface referring to font, to a target that failed no call for a       *)
(* reason of its own.                                                      *)
FontThenTypefaceCopied ==
  /\ pc = "done"
  /\ op = "copy"
  /\ ~ dryRun
  /\ faults = 0
  /\ Len(definitions.metaobjects) = 2
  /\ definitions.metaobjects[1].type = "font"
  /\ definitions.metaobjects[2].type = "typeface"
  /\ ReferencedIds(definitions.metaobjects[1]) = { }
  /\ ReferencedIds(definitions.metaobjects[2]) = { definitions.metaobjects[1].id }

(* The create calls issued for a definition, in the order of the calls. *)
CreatesOf(def) ==
  SelectSeq(calls, LAMBDA c : c.call = "createMetaobject" /\ c.item = def.id)

(* C27 as stated: pass 1 creates font and fails typeface with a dependency *)
(* error, pass 2 creates typeface with the rewritten reference, and the    *)
(* result is success = 2 and no errors.                                    *)
C27_TypefaceCreatedInPassTwo ==
  FontThenTypefaceCopied =>
    LET font == CreatesOf(definitions.metaobjects[1])
        typeface == CreatesOf(definitions.metaobjects[2])
    IN  /\ Len(font) = 1
        /\ font[1].pass = 1
        /\ font[1].response.kind = "ok"
        /\ Len(typeface) = 2
        /\ typeface[1].pass = 1
        /\ typeface[1].response.kind = "userErrors"
        /\ isDependencyError(typeface[1].error)
        /\ typeface[2].pass = 2
        /\ typeface[2].response.kind = "ok"
        /\ MetaobjectInputReferences(typeface[2].input) = { font[1].response.id }
        /\ AllCreated

(* C27 amended: pass 1 creates font and then typeface, whose reference is  *)
(* rewritten to the identifier font was created with before its first      *)
(* create call; there is no second pass, and the result is success = 2 and *)
(* no errors.                                                              *)
C27_TypefaceCreatedInPassOne ==
  FontThenTypefaceCopied =>
    LET font == CreatesOf(definitions.metaobjects[1])
        typeface == CreatesOf(definitions.metaobjects[2])
    IN  /\ Len(font) = 1
        /\ font[1].pass = 1
        /\ font[1].response.kind = "ok"
        /\ Len(typeface) = 1
        /\ typeface[1].pass = 1
        /\ typeface[1].response.kind = "ok"
        /\ MetaobjectInputReferences(typeface[1].input) = { font[1].response.id }
        /\ pass = 1
        /\ AllCreated

(* font and typeface were copied in that order. *)
C27_Witness ==
  /\ FontThenTypefaceCopied
  /\ results.metaobjects.success = 2
  /\ Len(calls) = 2

(* The create calls of one item. *)
MetaobjectAttempts(id) ==
  { c \in DOMAIN calls : calls[c].call = "createMetaobject" /\ calls[c].item = id }

MetafieldAttempts(id) ==
  { c \in DOMAIN calls : calls[c].call = "createMetafield" /\ calls[c].item = id }

(* The pass loop runs at most 3 times; an object-definition is attempted   *)
(* at most once in a pass, so at most 3 times; a field-definition is       *)
(* attempted at most once, and once the copy is done each one that passed  *)
(* the reserved filter of a copy that is not a dry run was attempted once. *)
CopyWithinBounds ==
  /\ pass <= 3
  /\ \A c \in DOMAIN calls :
        /\ calls[c].call = "createMetaobject" =>
              /\ calls[c].pass \in 1 .. 3
              /\ \A d \in MetaobjectAttempts(calls[c].item) :
                    calls[d].pass = calls[c].pass => d = c
              /\ Cardinality(MetaobjectAttempts(calls[c].item)) <= 3
        /\ calls[c].call = "createMetafield" =>
              MetafieldAttempts(calls[c].item) = { c }
  /\ ( op = "copy" /\ pc = "done" /\ ~ dryRun ) =>
        \A i \in DOMAIN filtered.metafields :
          Cardinality(MetafieldAttempts(filtered.metafields[i].id)) = 1

CopyCalled == op = "copy" /\ pc = "called"

CopyReturned == op = "copy" /\ pc = "done"

(* C29: when every remote call returns, copyDefinitionsWithDependencies    *)
(* returns; the pass loop runs at most 3 times, each object-definition is  *)
(* attempted at most once per pass (at most 3 create calls in all) and     *)
(* each field-definition of the copy step exactly once.                    *)
C29_CopyTerminatesWithinBounds ==
  /\ [] CopyWithinBounds
  /\ CopyCalled ~> CopyReturned

(* A copy that returned after three passes: one object-definition was      *)
(* attempted three times, and the field-definition once.                   *)
C29_Witness ==
  /\ CopyReturned
  /\ pass = 3
  /\ \E c \in DOMAIN calls : Cardinality(MetaobjectAttempts(calls[c].item)) = 3
  /\ \E c \in DOMAIN calls : calls[c].call = "createMetafield"

(* The list is in dependency order: every reference of a definition is to  *)
(* a definition listed before it.                                          *)
InDependencyOrder(objs) ==
  \A i \in DOMAIN objs :
     \A id \in ReferencedIds(objs[i]) : \E j \in 1 .. (i - 1) : objs[j].id = id

(* A copy of a list in dependency order has returned, and the target       *)
(* failed no call for reasons of its own.                                  *)
OrderedCopyReturned ==
  /\ pc = "done"
  /\ op = "copy"
  /\ ~ dryRun
  /\ faults = 0
  /\ InDependencyOrder(definitions.metaobjects)

(* Every object-definition of the list was created in the first pass, with *)
(* its references rewritten to the identifiers the target gave.            *)
CreatedInPassOne(objs) ==
  /\ pass <= 1
  /\ \A i \in DOMAIN objs :
        \E c \in DOMAIN calls :
           /\ calls[c].call = "createMetaobject"
           /\ calls[c].item = objs[i].id
           /\ calls[c].pass = 1
           /\ calls[c].response.kind = "ok"
           /\ MetaobjectInputReferences(calls[c].input) =
                { metaobjectIdMapping[id] : id \in ReferencedIds(objs[i]) }

(* C33 as stated: the definitions to copy of a list in dependency order    *)
(* (the ones the reserved filter kept) are all created in pass 1, whatever *)
(* the length of the list.                                                 *)
C33_OrderedListCreatedInPassOne ==
  OrderedCopyReturned => CreatedInPassOne(filtered.metaobjects)

(* C33 amended: when the definitions to copy are in dependency order among *)
(* themselves (every reference is to a definition listed before that the   *)
(* reserved filter kept), all of them are created in pass 1, each with its *)
(* references rewritten to the identifiers of the target, whatever the     *)
(* length of the list.                                                     *)
C33_OrderedCopiedListCreatedInPassOne ==
  ( OrderedCopyReturned /\ InDependencyOrder(filtered.metaobjects) ) =>
     CreatedInPassOne(filtered.metaobjects)

(* A chain longer than MAX_DEPENDENCY_PASSES, listed in dependency order,  *)
(* was created in one pass.                                                *)
C33_Witness ==
  /\ OrderedCopyReturned
  /\ InDependencyOrder(filtered.metaobjects)
  /\ IsDependencyChain(definitions.metaobjects)
  /\ Len(definitions.metaobjects) > MAX_DEPENDENCY_PASSES
  /\ pass = 1
  /\ results.metaobjects.success = Len(definitions.metaobjects)

(* The object-definitions given to the call have identifiers of their own. *)
DistinctDefinitions ==
  \A i, j \in DOMAIN definitions.metaobjects :
     definitions.metaobjects[i].id = definitions.metaobjects[j].id => i = j

(* The create calls of object-definitions that succeeded so far. *)
CreatedSoFar ==
  { c \in DOMAIN calls : calls[c].call = "createMetaobject" /\ calls[c].response.kind = "ok" }

(* The table holds one entry per created object-definition: its source id  *)
(* mapped to the id the target returned.                                   *)
MappingIsCreated ==
  ( op = "copy" /\ DistinctDefinitions ) =>
     /\ DOMAIN metaobjectIdMapping = { calls[c].item : c \in CreatedSoFar }
     /\ \A c \in CreatedSoFar : metaobjectIdMapping[calls[c].item] = calls[c].response.id
     /\ Cardinality(DOMAIN metaobjectIdMapping) = results.metaobjects.success

(* A step of the copy keeps every entry as it is, adds one exactly when a  *)
(* creation succeeded, and the call starts with an empty table.            *)
MappingGrows ==
  ( op = "copy" /\ DistinctDefinitions ) =>
     /\ pc = "called" => metaobjectIdMapping' = EmptyMapping
     /\ pc # "called" =>
          /\ \A k \in DOMAIN metaobjectIdMapping :
                /\ k \in DOMAIN metaobjectIdMapping'
                /\ metaobjectIdMapping'[k] = metaobjectIdMapping[k]
          /\ ( metaobjectIdMapping' # metaobjectIdMapping ) <=>
                /\ Len(calls') = Len(calls) + 1
                /\ calls'[Len(calls')].call = "createMetaobject"
                /\ calls'[Len(calls')].response.kind = "ok"

(* C32: at every point of a copy of distinct definitions the remapping     *)
(* table holds exactly one entry per object-definition created so far in   *)
(* this call (source id to the id the target returned), its size is        *)
(* metaobjects.success, no entry is removed or overwritten, a failed       *)
(* creation adds nothing, and the table starts empty.                      *)
C32_MappingTracksCreations == [] MappingIsCreated /\ [][MappingGrows]_vars

(* A returned copy of two object-definitions, both created, with a failed  *)
(* creation among its calls.                                               *)
C32_Witness ==
  /\ op = "copy"
  /\ pc = "done"
  /\ DistinctDefinitions
  /\ Cardinality(DOMAIN metaobjectIdMapping) = 2
  /\ \E c \in DOMAIN calls :
        calls[c].call = "createMetaobject" /\ calls[c].response.kind # "ok"

(* The create calls for object-definitions, and the waits of each kind.    *)
MetaobjectCreates == { c \in DOMAIN calls : calls[c].call = "createMetaobject" }

CreationDelaysAfter(c) ==
  { i \in DOMAIN delays : delays[i].kind = "creation" /\ delays[i].after = c }

PassDelaysAfter(k) ==
  { i \in DOMAIN delays : delays[i].kind = "pass" /\ delays[i].pass = k }

(* Pass k has run to the end of its for loop. *)
PassCompleted(k) == pass > k \/ ( pass = k /\ pc # "copy_pass" )

(* Some item of pass k failed and was put back for the next pass. *)
RequeuedInPass(k) ==
  \E c \in MetaobjectCreates :
    /\ calls[c].pass = k
    /\ calls[c].response.kind # "ok"
    /\ isDependencyError(calls[c].error)

(* C30: a creation delay (CREATION_DELAY_MS) follows every successful      *)
(* object-definition creation and no failed one, and follows nothing else; *)
(* a delay between passes (PASS_DELAY_MS) is taken after pass k exactly    *)
(* when an item was re-queued in pass k and k < MAX_DEPENDENCY_PASSES, so  *)
(* never after the last pass and never when nothing is pending.            *)
C30_DelaysFollowCreationsAndRequeues ==
  /\ \A c \in MetaobjectCreates :
        Cardinality(CreationDelaysAfter(c)) =
          IF calls[c].response.kind = "ok" THEN 1 ELSE 0
  /\ \A i \in DOMAIN delays :
        /\ delays[i].kind = "creation" =>
              delays[i].after \in MetaobjectCreates /\ delays[i].ms = CREATION_DELAY_MS
        /\ delays[i].kind = "pass" =>
              delays[i].pass \in 1 .. MAX_DEPENDENCY_PASSES /\ delays[i].ms = PASS_DELAY_MS
  /\ \A k \in 1 .. MAX_DEPENDENCY_PASSES :
        Cardinality(PassDelaysAfter(k)) =
          IF PassCompleted(k) /\ RequeuedInPass(k) /\ k < MAX_DEPENDENCY_PASSES
          THEN 1 ELSE 0

(* A finished copy that took all three passes: a creation succeeded, an    *)
(* item was re-queued in passes 1 and 2 and failed again in the last pass. *)
C30_Witness ==
  /\ op = "copy"
  /\ pc = "done"
  /\ pass = MAX_DEPENDENCY_PASSES
  /\ \E c \in MetaobjectCreates : calls[c].response.kind = "ok"
  /\ PassDelaysAfter(1) # { }
  /\ PassDelaysAfter(2) # { }
  /\ \E c \in MetaobjectCreates :
        /\ calls[c].pass = MAX_DEPENDENCY_PASSES
        /\ calls[c].response.kind # "ok"
        /\ isDependencyError(calls[c].error)
  /\ PassDelaysAfter(MAX_DEPENDENCY_PASSES) = { }

(***************************************************************************)
(* EntryConflictResolver.  resolveConflict answers from the global         *)
(* decision when there is one, with "update" in a dry run, and otherwise   *)
(* from the operator's answer to the prompt; reset forgets the global      *)
(* decision.                                                               *)
(***************************************************************************)
MaxResolutions == 4

ENTRY_CONFLICT_ACTIONS ==
  [ UPDATE |-> "update", SKIP |-> "skip", UPDATE_ALL |-> "update_all",
    SKIP_ALL |-> "skip_all", QUIT |-> "quit" ]

(* promptForAction: the action of an accepted choice (the answer,          *)
(* lower-cased and trimmed); any other answer prompts again.               *)
promptForAction(choice) ==
  CASE choice \in { "u", "update" } -> ENTRY_CONFLICT_ACTIONS.UPDATE
    [] choice \in { "s", "skip" } -> ENTRY_CONFLICT_ACTIONS.SKIP
    [] choice \in { "a", "all", "all update" } -> ENTRY_CONFLICT_ACTIONS.UPDATE_ALL
    [] choice \in { "n", "never", "never update" } -> ENTRY_CONFLICT_ACTIONS.SKIP_ALL
    [] choice \in { "q", "quit" } -> ENTRY_CONFLICT_ACTIONS.QUIT

PromptChoices == { "u", "skip", "a", "all update", "never", "q" }

(* resolveConflict without the assignment to this.globalAction. *)
resolveConflictForgetful(global, isDryRun, choice) ==
  IF isDryRun
  THEN [ verdict |-> ENTRY_CONFLICT_ACTIONS.UPDATE, globalAction |-> global,
         prompted |-> FALSE, action |-> null ]
  ELSE LET action == promptForAction(choice)
       IN  [ verdict |-> IF action = ENTRY_CONFLICT_ACTIONS.UPDATE_ALL
                         THEN ENTRY_CONFLICT_ACTIONS.UPDATE
                         ELSE IF action = ENTRY_CONFLICT_ACTIONS.SKIP_ALL
                         THEN ENTRY_CONFLICT_ACTIONS.SKIP
                         ELSE action,
             globalAction |-> global, prompted |-> TRUE, action |-> action ]

(* resolveConflict: what it returns, this.globalAction after it, whether   *)
(* it prompted and the action the prompt gave.                             *)
resolveConflict(global, isDryRun, choice) ==
  IF global = ENTRY_CONFLICT_ACTIONS.UPDATE_ALL
  THEN [ verdict |-> ENTRY_CONFLICT_ACTIONS.UPDATE, globalAction |-> global,
         prompted |-> FALSE, action |-> null ]
  ELSE IF global = ENTRY_CONFLICT_ACTIONS.SKIP_ALL
  THEN [ verdict |-> ENTRY_CONFLICT_ACTIONS.SKIP, globalAction |-> global,
         prompted |-> FALSE, action |-> null ]
  ELSE IF isDryRun
  THEN [ verdict |-> ENTRY_CONFLICT_ACTIONS.UPDATE, globalAction |-> global,
         prompted |-> FALSE, action |-> null ]
  ELSE LET action == promptForAction(choice)
       IN  IF action \in { ENTRY_CONFLICT_ACTIONS.UPDATE_ALL,
                           ENTRY_CONFLICT_ACTIONS.SKIP_ALL }
           THEN [ verdict |-> IF action = ENTRY_CONFLICT_ACTIONS.UPDATE_ALL
                              THEN ENTRY_CONFLICT_ACTIONS.UPDATE
                              ELSE ENTRY_CONFLICT_ACTIONS.SKIP,
                  globalAction |-> action, prompted |-> TRUE, action |-> action ]
           ELSE [ verdict |-> action, globalAction |-> global, prompted |-> TRUE,
                  action |-> action ]

(* The record of a resolveConflict call. *)
Resolution(r) ==
  [ call |-> "resolveConflict", prompted |-> r.prompted, action |-> r.action,
    verdict |-> r.verdict ]

ResetCall ==
  [ call |-> "reset", prompted |-> FALSE, action |-> null, verdict |-> null ]

ResolverInit ==
  /\ globalAction = null
  /\ resolverDryRun \in BOOLEAN
  /\ resolutions = << >>
  /\ ManagerIdle
  /\ EntriesIdle
  /\ RestIdle

ResolveConflict ==
  /\ Len(resolutions) < MaxResolutions
  /\ \E choice \in PromptChoices :
       LET r == resolveConflict(globalAction, resolverDryRun, choice)
       IN  /\ globalAction' = r.globalAction
           /\ resolutions' = Append(resolutions, Resolution(r))
  /\ UNCHANGED << resolverDryRun, managerVars, entryVars, restVars >>

Reset ==
  /\ Len(resolutions) < MaxResolutions
  /\ globalAction' = null
  /\ resolutions' = Append(resolutions, ResetCall)
  /\ UNCHANGED << resolverDryRun, managerVars, entryVars, restVars >>

ResolverNext ==
  \/ ResolveConflict
  \/ Reset

SpecResolver == ResolverInit /\ [][ResolverNext]_vars

NoResetBetween(i, j) ==
  \A k \in (i + 1)..(j - 1) : resolutions[k].call # "reset"

Latched(i) ==
  /\ resolutions[i].call = "resolveConflict"
  /\ resolutions[i].prompted
  /\ resolutions[i].action \in { "update_all", "skip_all" }

(* C12: after the operator answered update-all (skip-all) to a prompt,     *)
(* every later resolveConflict call before a reset returns update (skip)   *)
(* and does not prompt.                                                    *)
C12_AllAnswersLatch ==
  \A i, j \in DOMAIN resolutions :
    ( /\ i < j
      /\ Latched(i)
      /\ resolutions[j].call = "resolveConflict"
      /\ NoResetBetween(i, j) )
    => /\ ~ resolutions[j].prompted
       /\ resolutions[j].verdict =
            IF resolutions[i].action = "update_all" THEN "update" ELSE "skip"

(* skip-all was answered, a later conflict resolved to skip without a      *)
(* prompt, and after a reset the operator was prompted again.              *)
C12_Witness ==
  \E i, j, k, l \in DOMAIN resolutions :
    /\ i < j /\ j < k /\ k < l
    /\ Latched(i)
    /\ resolutions[i].action = "skip_all"
    /\ resolutions[j].call = "resolveConflict"
    /\ resolutions[j].verdict = "skip"
    /\ resolutions[k].call = "reset"
    /\ resolutions[l].prompted

(***************************************************************************)
(* DefinitionManager.copyMetaobjectEntries and copyMetaobjectEntry.  An    *)
(* entry is identified by type and handle.  The entries of a definition    *)
(* come with it (entries is an array) or are fetched through this.client.  *)
(***************************************************************************)
MaxEntries == 2
MaxEntryFaults == 1

EntryTypes == << "font", "typeface" >>
EntryHandles == << "regular", "bold", "italic" >>

EntryFields(value) == << [ key |-> "title", value |-> value ] >>

SourceEntry(type, k) ==
  [ type |-> type, handle |-> EntryHandles[k], fields |-> EntryFields("source") ]

TargetEntry(type, k) ==
  [ type |-> type, handle |-> EntryHandles[k], fields |-> EntryFields("target") ]

(* An object-definition as copyMetaobjectEntries reads it. *)
EntryDefinition(type, entriesIsArray, n) ==
  [ type |-> type, entriesIsArray |-> entriesIsArray,
    entries |-> [ k \in 1..n |-> SourceEntry(type, k) ] ]

SourceDefinitionLists ==
  UNION { { [ i \in 1..n |-> EntryDefinition(EntryTypes[i], c[i].isArray, c[i].n) ] :
              c \in [ 1..n -> { [ isArray |-> FALSE, n |-> 0 ] }
                                 \cup [ isArray : { TRUE }, n : 0..MaxEntries ] ] } :
          n \in 1..Len(EntryTypes) }

(* The target holds, for every type, the entries of some of the handles. *)
TargetStores ==
  { { TargetEntry(EntryTypes[i], k) : i \in DOMAIN EntryTypes, k \in H } :
      H \in SUBSET (1..MaxEntries) }

EntryAt(store, type, handle) ==
  { e \in store : e.type = type /\ e.handle = handle }

(* The entries of a page of the paged read (250 in the code). *)
EntryPageSize == 1

(* The entries of the type in the store, in the order of the handles. *)
EntriesHeld(type, store) ==
  LET handles == SelectSeq(EntryHandles,
                           LAMBDA h : EntryAt(store, type, h) # { })
  IN  [ i \in DOMAIN handles |->
          CHOOSE e \in EntryAt(store, type, handles[i]) : TRUE ]

(* What the catch of a failed page request leaves in allEntries. *)
GatheredEmptied(gathered) == << >>

Gathered(gathered) == gathered

(* getMetaobjectEntries: the entries of the type in the store behind       *)
(* this.client; a failed request ends the paging with what was fetched:    *)
(* nothing when the first request fails ("throw"), the first page when the *)
(* second one fails ("partial").                                           *)
getMetaobjectEntries(type, store, outcome) ==
  IF outcome = "throw" THEN Gathered(<< >>)
  ELSE IF outcome = "partial"
       THEN Gathered(SubSeq(EntriesHeld(type, store), 1, EntryPageSize))
  ELSE EntriesHeld(type, store)

EntryItem(entry) == << entry.type, entry.handle >>

EntryCall(call, item, outcome) ==
  [ call |-> call, item |-> item, outcome |-> outcome ]

EntryStoreFaults(faultsSoFar, outcomes) ==
  IF faultsSoFar < MaxEntryFaults THEN outcomes ELSE { }

FetchOutcomes(faultsSoFar) ==
  { "ok" } \cup EntryStoreFaults(faultsSoFar, { "throw" })

(* A second request is issued, and may fail, only when the first page      *)
(* reported a next one.                                                    *)
PagedFetchOutcomes(type, store, faultsSoFar) ==
  FetchOutcomes(faultsSoFar)
    \cup ( IF Len(EntriesHeld(type, store)) > EntryPageSize
           THEN EntryStoreFaults(faultsSoFar, { "partial" })
           ELSE { } )

FetchFailed(outcome) == outcome \in { "throw", "partial" }

LookupOutcomes(store, entry, faultsSoFar) ==
  { IF EntryAt(store, entry.type, entry.handle) # { } THEN "found" ELSE "absent" }
    \cup EntryStoreFaults(faultsSoFar, { "throw" })

MutationOutcomes(faultsSoFar) ==
  { "ok" } \cup EntryStoreFaults(faultsSoFar, { "userErrors", "throw" })

ENTRY_USER_ERROR == "Value is invalid"

(* error.message caught in copyMetaobjectEntry for a failed call. *)
EntryError(call, outcome) ==
  IF outcome = "throw" THEN HTTP_NOT_FOUND
  ELSE IF call = "upsertMetaobjectEntry" THEN << "Upsert failed: ", ENTRY_USER_ERROR >>
  ELSE << "Create failed: ", ENTRY_USER_ERROR >>

(* The objects copyMetaobjectEntry returns. *)
EntryResult(success, skipped, action, error) ==
  [ success |-> success, skipped |-> skipped, action |-> action, error |-> error ]

(* The store after a create or an upsert of the entry. *)
StoreWith(store, entry) ==
  (store \ EntryAt(store, entry.type, entry.handle)) \cup { entry }

(* The mutation a verdict other than quit leads to: none for skip. *)
UpsertWhateverVerdict(verdict) == "upsertMetaobjectEntry"

MutationAfterVerdict(verdict) ==
  IF verdict = ENTRY_CONFLICT_ACTIONS.SKIP THEN null ELSE "upsertMetaobjectEntry"

(* One mutation call and what copyMetaobjectEntry returns after it. *)
EntryMutation(call, sourceEntry, action, before, faultsSoFar) ==
  { [ result |-> IF m = "ok" THEN EntryResult(TRUE, FALSE, action, NoError)
                 ELSE EntryResult(FALSE, FALSE, null, EntryError(call, m)),
      calls |-> before.calls \o << EntryCall(call, EntryItem(sourceEntry), m) >>,
      resolutions |-> before.resolutions,
      globalAction |-> before.globalAction,
      store |-> IF m = "ok" THEN StoreWith(before.store, sourceEntry) ELSE before.store,
      faults |-> IF m = "ok" THEN faultsSoFar ELSE faultsSoFar + 1 ] :
    m \in MutationOutcomes(faultsSoFar) }

(* copyMetaobjectEntry: every way the call can go, with what it returns,   *)
(* the calls it issues, and the resolver and the store after it.           *)
copyMetaobjectEntry(sourceEntry, isDryRun, global, isResolverDryRun, store, faultsSoFar) ==
  LET item == EntryItem(sourceEntry)
      untouched == [ calls |-> << >>, resolutions |-> << >>, globalAction |-> global,
                     store |-> store ]
      Returned(result, before, faultsAfter) ==
        [ result |-> result, calls |-> before.calls, resolutions |-> before.resolutions,
          globalAction |-> before.globalAction, store |-> before.store,
          faults |-> faultsAfter ]
      After(lookup) ==
        [ untouched EXCEPT !.calls = << EntryCall("getMetaobjectByHandle", item, lookup) >> ]
      Resolved(r) ==
        [ After("found") EXCEPT
            !.calls = @ \o << EntryCall("resolveConflict", item, r.verdict) >>,
            !.resolutions = << Resolution(r) >>,
            !.globalAction = r.globalAction ]
  IN  IF isDryRun
      THEN { Returned(EntryResult(TRUE, FALSE, ENTRY_CONFLICT_ACTIONS.UPDATE, NoError),
                      untouched, faultsSoFar) }
      ELSE UNION {
        IF lookup = "throw"
        THEN { Returned(EntryResult(FALSE, FALSE, null,
                                    EntryError("getMetaobjectByHandle", lookup)),
                        After(lookup), faultsSoFar + 1) }
        ELSE IF lookup = "found"
        THEN UNION {
               LET r == resolveConflict(global, isResolverDryRun, choice)
               IN  IF r.verdict = ENTRY_CONFLICT_ACTIONS.QUIT
                   THEN { Returned(EntryResult(FALSE, FALSE, ENTRY_CONFLICT_ACTIONS.QUIT,
                                               NoError),
                                   Resolved(r), faultsSoFar) }
                   ELSE IF MutationAfterVerdict(r.verdict) = null
                   THEN { Returned(EntryResult(FALSE, TRUE, null, NoError),
                                   Resolved(r), faultsSoFar) }
                   ELSE EntryMutation("upsertMetaobjectEntry", sourceEntry, r.verdict,
                                      Resolved(r), faultsSoFar) :
               choice \in PromptChoices }
        ELSE EntryMutation("createMetaobjectEntry", sourceEntry,
                           ENTRY_CONFLICT_ACTIONS.UPDATE, After(lookup), faultsSoFar) :
        lookup \in LookupOutcomes(store, sourceEntry, faultsSoFar) }

(* Where copyMetaobjectEntries goes after an entry: it returns on quit. *)
ContinueAfterQuit(action) == "entries_type"

AfterEntryResult(action) ==
  IF action = ENTRY_CONFLICT_ACTIONS.QUIT THEN "entries_done" ELSE "entries_type"

(* results after the entry's result is counted. *)
CountEntryResult(r, sourceEntry, entryResult) ==
  IF entryResult.success THEN [ r EXCEPT !.success = @ + 1 ]
  ELSE IF entryResult.skipped THEN [ r EXCEPT !.skipped = @ + 1 ]
  ELSE [ r EXCEPT !.errors =
           Append(@, [ type |-> "metaobject_entry",
                       identifier |-> << sourceEntry.type, "/", sourceEntry.handle >>,
                       error |-> entryResult.error ]) ]

EntriesInit ==
  /\ sourceDefinitions \in SourceDefinitionLists
  /\ entryDryRun \in BOOLEAN
  /\ entryPc = "entries_loop"
  /\ defIdx = 1
  /\ sourceEntries = << >>
  /\ entryIdx = 0
  /\ entryResults = ZeroEntryResults
  /\ targetEntries \in TargetStores
  /\ entryCalls = << >>
  /\ entryFaults = 0
  /\ globalAction = null
  /\ resolverDryRun \in BOOLEAN
  /\ resolutions = << >>
  /\ ManagerIdle
  /\ RestIdle

(* The head of an iteration of the outer loop: the entries of the type. *)
CopyEntriesOfType ==
  /\ entryPc = "entries_loop"
  /\ defIdx <= Len(sourceDefinitions)
  /\ LET metaobjectDef == sourceDefinitions[defIdx]
     IN  \E fetch \in IF metaobjectDef.entriesIsArray THEN { "none" }
                      ELSE PagedFetchOutcomes(metaobjectDef.type, targetEntries,
                                              entryFaults) :
           LET entries == IF metaobjectDef.entriesIsArray THEN metaobjectDef.entries
                          ELSE getMetaobjectEntries(metaobjectDef.type, targetEntries,
                                                    fetch)
           IN  /\ sourceEntries' = entries
               /\ entryCalls' =
                    IF metaobjectDef.entriesIsArray THEN entryCalls
                    ELSE Append(entryCalls,
                           EntryCall("getMetaobjectEntries",
                                     << metaobjectDef.type >>, fetch))
               /\ entryFaults' = IF FetchFailed(fetch) THEN entryFaults + 1
                                  ELSE entryFaults
               /\ IF Len(entries) = 0
                  THEN /\ defIdx' = defIdx + 1
                       /\ UNCHANGED << entryPc, entryIdx >>
                  ELSE /\ entryPc' = "entries_type"
                       /\ entryIdx' = 1
                       /\ UNCHANGED defIdx
  /\ UNCHANGED << sourceDefinitions, entryDryRun, entryResults, targetEntries,
                  resolverVars, managerVars, restVars >>

(* One iteration of the inner loop. *)
CopyEntry ==
  /\ entryPc = "entries_type"
  /\ entryIdx <= Len(sourceEntries)
  /\ \E o \in copyMetaobjectEntry(sourceEntries[entryIdx], entryDryRun, globalAction,
                                  resolverDryRun, targetEntries, entryFaults) :
       /\ globalAction' = o.globalAction
       /\ resolutions' = resolutions \o o.resolutions
       /\ targetEntries' = o.store
       /\ entryCalls' = entryCalls \o o.calls
       /\ entryFaults' = o.faults
       /\ entryPc' = AfterEntryResult(o.result.action)
       /\ IF AfterEntryResult(o.result.action) = "entries_done"
          THEN UNCHANGED << entryResults, entryIdx >>
          ELSE /\ entryResults' =
                    CountEntryResult(entryResults, sourceEntries[entryIdx], o.result)
               /\ entryIdx' = entryIdx + 1
  /\ UNCHANGED << sourceDefinitions, entryDryRun, defIdx, sourceEntries, resolverDryRun,
                  managerVars, restVars >>

CopyEntriesTypeEnd ==
  /\ entryPc = "entries_type"
  /\ entryIdx > Len(sourceEntries)
  /\ defIdx' = defIdx + 1
  /\ entryPc' = "entries_loop"
  /\ UNCHANGED << sourceDefinitions, entryDryRun, sourceEntries, entryIdx, entryResults,
                  targetEntries, entryCalls, entryFaults, resolverVars, managerVars, restVars >>

CopyEntriesReturn ==
  /\ entryPc = "entries_loop"
  /\ defIdx > Len(sourceDefinitions)
  /\ entryPc' = "entries_done"
  /\ UNCHANGED << sourceDefinitions, entryDryRun, defIdx, sourceEntries, entryIdx,
                  entryResults, targetEntries, entryCalls, entryFaults, resolverVars,
                  managerVars, restVars >>

EntriesNext ==
  \/ CopyEntriesOfType
  \/ CopyEntry
  \/ CopyEntriesTypeEnd
  \/ CopyEntriesReturn

SpecEntries == EntriesInit /\ [][EntriesNext]_vars

EntryItems ==
  { << EntryTypes[i], EntryHandles[k] >> : i \in DOMAIN EntryTypes,
                                           k \in DOMAIN EntryHandles }

(* The entries that came with the definitions given. *)
SourceItems ==
  UNION { { EntryItem(sourceDefinitions[d].entries[k]) :
              k \in DOMAIN sourceDefinitions[d].entries } :
          d \in DOMAIN sourceDefinitions }

CallsOf(call, item) ==
  { i \in DOMAIN entryCalls : entryCalls[i].call = call /\ entryCalls[i].item = item }

Number(call, item) == Cardinality(CallsOf(call, item))

OutcomeOf(call, item) ==
  { entryCalls[i].outcome : i \in CallsOf(call, item) }

QuitAt ==
  { i \in DOMAIN entryCalls :
      entryCalls[i].call = "resolveConflict" /\ entryCalls[i].outcome = "quit" }

MutationsDone ==
  { i \in DOMAIN entryCalls :
      /\ entryCalls[i].call \in { "createMetaobjectEntry", "upsertMetaobjectEntry" }
      /\ entryCalls[i].outcome = "ok" }

Lookups == { i \in DOMAIN entryCalls : entryCalls[i].call = "getMetaobjectByHandle" }

(* C13: once the resolver returned quit for an entry the call has          *)
(* returned; no call was issued after that verdict; the entry and the      *)
(* entries after it are in neither success, errors nor skipped; every      *)
(* entry created or updated before is counted and is in the store.         *)
C13_QuitReturnsAtOnce ==
  QuitAt # { } =>
    /\ entryPc = "entries_done"
    /\ QuitAt = { Len(entryCalls) }
    /\ entryResults.success + entryResults.skipped + Len(entryResults.errors)
         = Cardinality(Lookups) - 1
    /\ entryResults.success = Cardinality(MutationsDone)
    /\ \A i \in MutationsDone :
         \E e \in targetEntries :
            /\ EntryItem(e) = entryCalls[i].item
            /\ entryCalls[i].item \in SourceItems => e.fields = EntryFields("source")

(* The operator quit after an entry was copied and before one that came    *)
(* with the definitions was looked up.                                     *)
C13_Witness ==
  /\ QuitAt # { }
  /\ MutationsDone # { }
  /\ \E item \in SourceItems : Number("getMetaobjectByHandle", item) = 0

(* C14: in a copy that is not a dry run an entry is looked up once; when   *)
(* it does not exist one create call follows and the resolver is not       *)
(* consulted; when it exists the resolver is consulted once, update leads  *)
(* to one upsert call, skip to no create and no upsert and the entry is    *)
(* counted as skipped; when the call returned without a quit every entry   *)
(* that came with the definitions was looked up.                           *)
C14_LookupThenVerdict ==
  ~ entryDryRun =>
    /\ \A item \in EntryItems :
         LET lookup == OutcomeOf("getMetaobjectByHandle", item)
             verdict == OutcomeOf("resolveConflict", item)
             creates == Number("createMetaobjectEntry", item)
             upserts == Number("upsertMetaobjectEntry", item)
         IN  /\ Number("getMetaobjectByHandle", item) <= 1
             /\ Number("resolveConflict", item) <= 1
             /\ lookup = { "absent" } => creates = 1 /\ upserts = 0 /\ verdict = { }
             /\ lookup = { "found" } =>
                  /\ Number("resolveConflict", item) = 1
                  /\ creates = 0
                  /\ verdict = { "update" } => upserts = 1
                  /\ verdict = { "skip" } => upserts = 0
             /\ lookup \in { { }, { "throw" } } =>
                  creates = 0 /\ upserts = 0 /\ verdict = { }
    /\ entryResults.skipped =
         Cardinality({ item \in EntryItems : "skip" \in OutcomeOf("resolveConflict", item) })
    /\ (entryPc = "entries_done" /\ QuitAt = { }) =>
         \A item \in SourceItems : Number("getMetaobjectByHandle", item) = 1

(* A copy returned after it created an entry, updated another one and      *)
(* skipped a third one.                                                    *)
C14_Witness ==
  /\ entryPc = "entries_done"
  /\ ~ entryDryRun
  /\ \E a, b, c \in EntryItems :
       /\ OutcomeOf("getMetaobjectByHandle", a) = { "absent" }
       /\ OutcomeOf("resolveConflict", b) = { "update" }
       /\ Number("upsertMetaobjectEntry", b) = 1
       /\ OutcomeOf("resolveConflict", c) = { "skip" }

(* Whether the definitions CopyCommand.execute hands to                    *)
(* copyMetaobjectEntries carry their entries: with a manifest the command  *)
(* fetches them through the source manager and attaches them; without one  *)
(* fetchAndFilterDefinitions calls getAllDefinitionsWithEntries() with no  *)
(* argument, which attaches nothing.                                       *)
EntriesAttached(fromManifest) == fromManifest

PassedByCopyCommand(list) ==
  \E fromManifest \in BOOLEAN :
     \A d \in DOMAIN list : list[d].entriesIsArray = EntriesAttached(fromManifest)

(* C35: in a copy with entries, with or without a manifest, the entries to *)
(* copy are never read through the client of the target (the client of    *)
(* the manager that runs copyMetaobjectEntries), and every entry created   *)
(* or upserted at the target is one that came from the source.             *)
C35_EntriesReadFromSource ==
  PassedByCopyCommand(sourceDefinitions) =>
    \A i \in DOMAIN entryCalls :
       /\ entryCalls[i].call # "getMetaobjectEntries"
       /\ entryCalls[i].call \in { "createMetaobjectEntry", "upsertMetaobjectEntry" } =>
             entryCalls[i].item \in SourceItems

(***************************************************************************)
(* DeleteCommand.execute and BulkCommand.execute.  delete runs one manager *)
(* on the store it deletes from; bulk runs targetManager on the store      *)
(* named by --to and sourceManager on the one named by --from.  target is  *)
(* the store behind the client of the manager that is running, otherStore  *)
(* the other one.  Entries are deleted by deleteMetaobjectEntries; its     *)
(* deleteMetaobjectEntry calls are recorded in calls, with the entry as    *)
(* item, so that their order with the definition deletes can be read.      *)
(***************************************************************************)
CommandObjectLists(store) ==
  { << >>,
    << ObjectDefinition(store, 1, "font", << >>) >>,
    << ObjectDefinition(store, 1, "font", << >>),
       ObjectDefinition(store, 2, "typeface", Reference(Id(store, 1))) >>,
    << ObjectDefinition(store, 1, "font", << >>),
       ObjectDefinition(store, 2, "shopify--typeface", << >>) >> }

(* The stores of a command run hold at most two object-definitions; the    *)
(* store assigns the numbers after them.                                   *)
FirstFreeId == 3

CommandStoreDefinitions(store) ==
  [ metaobjects : CommandObjectLists(store),
    metafields : { << >>, << FieldDefinition(store, 1, "custom", << >>) >> } ]

(* The entries a store holds: for every object-definition, the entries of  *)
(* the handles in H.                                                       *)
StoreEntries(defs, H) ==
  { TargetEntry(defs.metaobjects[i].type, k) : i \in DOMAIN defs.metaobjects, k \in H }

(* getAllDefinitionsWithEntries(includeEntries = false): the definitions,  *)
(* each object-definition with its entries only when the argument is true. *)
getAllDefinitionsWithEntries(defs, entries, includeEntriesArgument) ==
  IF ~ includeEntriesArgument THEN defs
  ELSE [ defs EXCEPT !.metaobjects =
           [ i \in DOMAIN @ |->
               @[i] @@ [ entries |-> getMetaobjectEntries(@[i].type, entries, "ok") ] ] ]

(* fetchAndFilterDefinitions with resources 'both': it calls               *)
(* getAllDefinitionsWithEntries without an argument.                       *)
fetchAndFilterDefinitions(defs, entries, withEntries) ==
  IF withEntries THEN getAllDefinitionsWithEntries(defs, entries, FALSE) ELSE defs

(* prepareDefinitionsForOperation: the definitions without the reserved    *)
(* ones; it throws when none is left.                                      *)
prepareDefinitionsForOperation(defs) ==
  LET processed == filterReservedDefinitions(defs).filtered
  IN  [ threw |-> Len(processed.metaobjects) + Len(processed.metafields) = 0,
        processed |-> processed ]

(* The reduce over def.entries of the commands and handleEntryOperations.  *)
RECURSIVE EntryCountFrom(_, _)
EntryCountFrom(metaobjects, i) ==
  IF i > Len(metaobjects) THEN 0
  ELSE ( IF "entries" \in DOMAIN metaobjects[i] THEN Len(metaobjects[i].entries) ELSE 0 )
       + EntryCountFrom(metaobjects, i + 1)

EntryCount(defs) == EntryCountFrom(defs.metaobjects, 1)

(* Whether execute goes on to delete the entries, after the confirmation.  *)
EntriesDeletedFirst(cmd, withEntries, toDelete) ==
  IF cmd = "delete" THEN withEntries /\ Len(toDelete.metaobjects) > 0
  ELSE withEntries /\ EntryCount(toDelete) > 0

ZeroEntryDeleteResults == [ success |-> 0, errors |-> << >> ]

(* deleteMetaobjectEntries reads result.metaobjectDelete.userErrors of     *)
(* what client.deleteMetaobjectEntry returns, { success, data, errors }:   *)
(* the read throws, and the catch records the entry as failed.             *)
DELETE_RESULT_READ_ERROR ==
  << "Cannot read properties of undefined (reading 'userErrors')" >>

DeleteEntryError(outcome) ==
  IF outcome = "throw" THEN HTTP_NOT_FOUND ELSE DELETE_RESULT_READ_ERROR

DeleteEntryCall(entry, outcome) ==
  [ call |-> "deleteMetaobjectEntry", item |-> EntryItem(entry),
    input |-> [ id |-> EntryItem(entry) ], pass |-> 0, response |-> outcome,
    error |-> DeleteEntryError(outcome) ]

(* ConfirmationPrompt.confirm: true without a prompt when skipConfirmation  *)
(* is set, else whether the answer, in lower case and trimmed, is 'yes'.   *)
confirm(skipConfirmation, typed) ==
  IF skipConfirmation THEN TRUE
  ELSE Trim(ToLowerCase(Chars[typed])) = Chars["yes"]

Answers == { "yes", " Yes ", "no" }

(* BulkCommand exists as one execute that deletes and copies ("bulk") and  *)
(* as an execute that runs DeleteCommand.execute and then                  *)
(* CopyCommand.execute ("bulk_delete_copy").                               *)
DeleteCommandRuns == command \in { "delete", "bulk_delete_copy" }

(* Where execute of the bulk that runs the two commands goes on when the   *)
(* delete command returned or threw 'No definitions available to delete'.  *)
AfterDeleteCommand(position) ==
  IF command = "bulk_delete_copy" THEN "copy_command" ELSE position

CommandsInit ==
  /\ command \in { "delete", "bulk", "bulk_delete_copy" }
  /\ includeEntries \in BOOLEAN
  /\ globalDryRun \in BOOLEAN
  /\ yes \in BOOLEAN
  /\ answer \in IF yes THEN { null } ELSE Answers
  /\ confirmed = FALSE
  /\ commandPc = "start"
  /\ storeDefinitions \in
       [ from : CommandStoreDefinitions("source"), to : CommandStoreDefinitions("target") ]
  /\ command = "delete" => storeDefinitions.from = NoDefinitions
  /\ definitionsToDelete = NoDefinitions
  /\ sourceFiltered = NoDefinitions
  /\ otherStore = StoreHolding(storeDefinitions.from)
  /\ op = "none"
  /\ dryRun = FALSE
  /\ definitions = NoDefinitions
  /\ pc = "idle"
  /\ filtered = NoDefinitions
  /\ metaobjectIdMapping = EmptyMapping
  /\ pendingMetaobjects = << >>
  /\ stillPending = << >>
  /\ pass = 0
  /\ idx = 0
  /\ results = ZeroResults
  /\ proc = IdleProc
  /\ target = StoreHolding(storeDefinitions.to)
  /\ nextId = FirstFreeId
  /\ calls = << >>
  /\ faults = 0
  /\ delays = << >>
  /\ ResolverIdle
  /\ sourceDefinitions = << >>
  /\ entryDryRun = FALSE
  /\ entryPc = "idle"
  /\ defIdx = 0
  /\ sourceEntries = << >>
  /\ entryIdx = 0
  /\ entryResults = ZeroEntryDeleteResults
  /\ \E H \in SUBSET (1..MaxEntries) : targetEntries = StoreEntries(storeDefinitions.to, H)
  /\ entryCalls = << >>
  /\ entryFaults = 0
  /\ ManifestIdle
  /\ ExtraIdle

(* execute up to the confirmation: fetch, prepare, the dry-run return and  *)
(* the prompt.                                                             *)
CommandPrepare ==
  /\ commandPc = "start"
  /\ LET sourceDefs == fetchAndFilterDefinitions(storeDefinitions.from,
                         StoreEntries(storeDefinitions.from, 1..MaxEntries),
                         includeEntries)
         targetDefs == fetchAndFilterDefinitions(storeDefinitions.to, targetEntries,
                         DeleteCommandRuns /\ includeEntries)
         source == prepareDefinitionsForOperation(sourceDefs)
         prepared == prepareDefinitionsForOperation(targetDefs)
         toDelete == IF prepared.threw THEN NoDefinitions ELSE prepared.processed
         thrown == IF command = "bulk" THEN source.threw ELSE prepared.threw
         prompted == ~ thrown /\ ~ globalDryRun
         proceed == prompted /\ confirm(yes, answer)
     IN  /\ definitionsToDelete' = IF thrown THEN NoDefinitions ELSE toDelete
         /\ sourceFiltered' = IF command = "bulk" /\ ~ thrown THEN source.processed
                              ELSE NoDefinitions
         /\ confirmed' = proceed
         /\ commandPc' =
              IF thrown THEN AfterDeleteCommand("failed")
              ELSE IF ~ proceed THEN AfterDeleteCommand("returned")
              ELSE IF EntriesDeletedFirst(IF DeleteCommandRuns THEN "delete" ELSE "bulk",
                                          includeEntries, toDelete)
                   THEN "delete_entries"
              ELSE "delete_definitions"
  /\ UNCHANGED << command, includeEntries, globalDryRun, yes, answer, storeDefinitions,
                  otherStore, managerVars, resolverVars, entryVars, manifestVars,
                  extraVars >>

(* deleteMetaobjectEntries(definitions): the call, with dryRun false. *)
DeleteEntriesStart ==
  /\ commandPc = "delete_entries"
  /\ entryPc = "idle"
  /\ entryPc' = "delete_loop"
  /\ defIdx' = 1
  /\ entryResults' = ZeroEntryDeleteResults
  /\ UNCHANGED << sourceDefinitions, entryDryRun, sourceEntries, entryIdx, targetEntries,
                  entryCalls, entryFaults, resolverVars, managerVars, restVars >>

(* The head of an iteration of its outer loop: the entries of the type are *)
(* fetched through this.client.                                            *)
DeleteEntriesOfType ==
  /\ entryPc = "delete_loop"
  /\ defIdx <= Len(definitionsToDelete.metaobjects)
  /\ LET metaobjectDef == definitionsToDelete.metaobjects[defIdx]
     IN  \E fetch \in PagedFetchOutcomes(metaobjectDef.type, targetEntries,
                                         entryFaults) :
           LET entries == getMetaobjectEntries(metaobjectDef.type, targetEntries, fetch)
           IN  /\ sourceEntries' = entries
               /\ entryCalls' = Append(entryCalls,
                    EntryCall("getMetaobjectEntries", << metaobjectDef.type >>, fetch))
               /\ entryFaults' = IF FetchFailed(fetch) THEN entryFaults + 1
                                  ELSE entryFaults
               /\ IF Len(entries) = 0
                  THEN /\ defIdx' = defIdx + 1
                       /\ UNCHANGED << entryPc, entryIdx >>
                  ELSE /\ entryPc' = "delete_type"
                       /\ entryIdx' = 1
                       /\ UNCHANGED defIdx
  /\ UNCHANGED << sourceDefinitions, entryDryRun, entryResults, targetEntries,
                  resolverVars, managerVars, restVars >>

(* One iteration of its inner loop: one deleteMetaobjectEntry call. *)
DeleteEntry ==
  /\ entryPc = "delete_type"
  /\ entryIdx <= Len(sourceEntries)
  /\ LET entry == sourceEntries[entryIdx]
     IN  \E outcome \in MutationOutcomes(entryFaults) :
           /\ calls' = Append(calls, DeleteEntryCall(entry, outcome))
           /\ targetEntries' = IF outcome = "ok" THEN targetEntries \ { entry }
                               ELSE targetEntries
           /\ entryFaults' = IF outcome = "ok" THEN entryFaults ELSE entryFaults + 1
           /\ entryResults' =
                [ entryResults EXCEPT !.errors =
                    Append(@, [ type |-> "metaobject_entry",
                                identifier |-> << entry.type, "/", entry.handle >>,
                                error |-> DeleteEntryError(outcome) ]) ]
           /\ entryIdx' = entryIdx + 1
  /\ UNCHANGED << sourceDefinitions, entryDryRun, entryPc, defIdx, sourceEntries,
                  entryCalls, resolverVars, restVars >>
  /\ UNCHANGED << op, dryRun, definitions, pc, filtered, metaobjectIdMapping,
                  pendingMetaobjects, stillPending, pass, idx, results, proc, target,
                  nextId, faults, delays >>

DeleteEntriesTypeEnd ==
  /\ entryPc = "delete_type"
  /\ entryIdx > Len(sourceEntries)
  /\ defIdx' = defIdx + 1
  /\ entryPc' = "delete_loop"
  /\ UNCHANGED << sourceDefinitions, entryDryRun, sourceEntries, entryIdx, entryResults,
                  targetEntries, entryCalls, entryFaults, resolverVars, managerVars,
                  restVars >>

(* return results, and execute goes on to the definitions. *)
DeleteEntriesReturn ==
  /\ entryPc = "delete_loop"
  /\ defIdx > Len(definitionsToDelete.metaobjects)
  /\ entryPc' = "entries_done"
  /\ commandPc' = "delete_definitions"
  /\ UNCHANGED << command, includeEntries, globalDryRun, yes, answer, confirmed, storeDefinitions,
                  definitionsToDelete, sourceFiltered, otherStore, manifestVars,
                  extraVars >>
  /\ UNCHANGED << sourceDefinitions, entryDryRun, defIdx, sourceEntries, entryIdx,
                  entryResults, targetEntries, entryCalls, entryFaults, resolverVars,
                  managerVars >>

(* manager.deleteDefinitions(definitionsToDelete), and for bulk            *)
(* targetManager.deleteDefinitions(targetFiltered): the call.              *)
CommandDeleteDefinitions ==
  /\ commandPc = "delete_definitions"
  /\ pc = "idle"
  /\ op' = "delete"
  /\ definitions' = definitionsToDelete
  /\ pc' = "called"
  /\ commandPc' = "deleting"
  /\ UNCHANGED << dryRun, filtered, metaobjectIdMapping, pendingMetaobjects,
                  stillPending, pass, idx, results, proc, target, nextId, calls, faults, delays >>
  /\ UNCHANGED << command, includeEntries, globalDryRun, yes, answer, confirmed, storeDefinitions,
                  definitionsToDelete, sourceFiltered, otherStore, resolverVars,
                  entryVars, manifestVars,
                  extraVars >>

(* bulk, step 3: sourceManager.copyDefinitionsWithDependencies(            *)
(* sourceFiltered); the manager that runs is now the one of --from.        *)
BulkCopyDefinitions ==
  /\ commandPc = "deleting"
  /\ command = "bulk"
  /\ pc = "done"
  /\ op' = "copy"
  /\ definitions' = sourceFiltered
  /\ pc' = "called"
  /\ target' = otherStore
  /\ otherStore' = target
  /\ commandPc' = "copying"
  /\ UNCHANGED << dryRun, filtered, metaobjectIdMapping, pendingMetaobjects,
                  stillPending, pass, idx, results, proc, nextId, calls, faults, delays >>
  /\ UNCHANGED << command, includeEntries, globalDryRun, yes, answer, confirmed, storeDefinitions,
                  definitionsToDelete, sourceFiltered, resolverVars, entryVars,
                  manifestVars,
                  extraVars >>

(* The definitions targetManager.getAllDefinitions() returns to the copy   *)
(* command: those of the store named by --to that are still in it.         *)
TargetDefinitionsNow ==
  [ metafields |-> SelectSeq(storeDefinitions.to.metafields,
                             LAMBDA d : \E held \in target : held.id = d.id),
    metaobjects |-> SelectSeq(storeDefinitions.to.metaobjects,
                              LAMBDA d : \E held \in target : held.id = d.id) ]

(* The conflicts of the copy command: for every definition to copy, in     *)
(* order, the first definition of the target of the same namespace and key *)
(* or of the same type.                                                    *)
RECURSIVE MetafieldConflicts(_, _)
MetafieldConflicts(toCopy, existing) ==
  IF Len(toCopy) = 0 THEN << >>
  ELSE LET def == Head(toCopy)
           found == SelectSeq(existing,
                      LAMBDA held : held.namespace = def.namespace /\ held.key = def.key)
       IN  ( IF Len(found) > 0 THEN << Head(found) >> ELSE << >> )
           \o MetafieldConflicts(Tail(toCopy), existing)

RECURSIVE MetaobjectConflicts(_, _)
MetaobjectConflicts(toCopy, existing) ==
  IF Len(toCopy) = 0 THEN << >>
  ELSE LET def == Head(toCopy)
           found == SelectSeq(existing, LAMBDA held : held.type = def.type)
       IN  ( IF Len(found) > 0 THEN << Head(found) >> ELSE << >> )
           \o MetaobjectConflicts(Tail(toCopy), existing)

(* CopyCommand.execute, as bulk calls it, up to its first engine call: the *)
(* source is fetched and prepared ('No definitions available to copy' is   *)
(* caught by bulk), the conflicts with the target are computed, a dry run  *)
(* returns, and with no prompt the conflicting definitions are deleted at  *)
(* the target, or the copy starts when there is none.                      *)
CopyCommandExecute ==
  /\ commandPc = "copy_command"
  /\ pc = "idle"
  /\ LET sourceDefs == fetchAndFilterDefinitions(storeDefinitions.from,
                         StoreEntries(storeDefinitions.from, 1..MaxEntries),
                         includeEntries)
         prepared == prepareDefinitionsForOperation(sourceDefs)
         definitionsToCopy == prepared.processed
         conflictingDefinitions ==
           [ metafields |-> MetafieldConflicts(definitionsToCopy.metafields,
                                               TargetDefinitionsNow.metafields),
             metaobjects |-> MetaobjectConflicts(definitionsToCopy.metaobjects,
                                                 TargetDefinitionsNow.metaobjects) ]
         totalConflicts == Len(conflictingDefinitions.metafields)
                           + Len(conflictingDefinitions.metaobjects)
     IN  /\ sourceFiltered' = IF prepared.threw THEN NoDefinitions ELSE definitionsToCopy
         /\ IF prepared.threw \/ globalDryRun
            THEN /\ commandPc' = "returned"
                 /\ UNCHANGED << op, definitions, pc >>
            ELSE /\ pc' = "called"
                 /\ op' = IF totalConflicts > 0 THEN "delete" ELSE "copy"
                 /\ definitions' = IF totalConflicts > 0 THEN conflictingDefinitions
                                   ELSE definitionsToCopy
                 /\ commandPc' = IF totalConflicts > 0 THEN "deleting_conflicts"
                                 ELSE "copying"
  /\ UNCHANGED << dryRun, filtered, metaobjectIdMapping, pendingMetaobjects,
                  stillPending, pass, idx, results, proc, target, nextId, calls, faults, delays >>
  /\ UNCHANGED << command, includeEntries, globalDryRun, yes, answer, confirmed, storeDefinitions,
                  definitionsToDelete, otherStore, resolverVars, entryVars,
                  manifestVars,
                  extraVars >>

(* CopyCommand.execute after the conflicting definitions were deleted:     *)
(* targetManager.copyDefinitionsWithDependencies(definitionsToCopy, false, *)
(* sourceManager).                                                         *)
CopyCommandCopy ==
  /\ commandPc = "deleting_conflicts"
  /\ pc = "done"
  /\ op' = "copy"
  /\ definitions' = sourceFiltered
  /\ pc' = "called"
  /\ commandPc' = "copying"
  /\ UNCHANGED << dryRun, filtered, metaobjectIdMapping, pendingMetaobjects,
                  stillPending, pass, idx, results, proc, target, nextId, calls, faults, delays >>
  /\ UNCHANGED << command, includeEntries, globalDryRun, yes, answer, confirmed, storeDefinitions,
                  definitionsToDelete, sourceFiltered, otherStore, resolverVars,
                  entryVars, manifestVars,
                  extraVars >>

(* The summary that ends execute: after the delete for the delete command, *)
(* after the copy for bulk, whose step 4 runs only when sourceFiltered     *)
(* carries entries.  In the bulk that runs the two commands the delete     *)
(* command returns to bulk, and the copy command copies entries when       *)
(* definitionsToCopy holds an object-definition.                           *)
CommandEnd ==
  /\ pc = "done"
  /\ \/ commandPc = "deleting" /\ DeleteCommandRuns
     \/ /\ commandPc = "copying"
        /\ command = "bulk"
        /\ ~ ( includeEntries /\ EntryCount(sourceFiltered) > 0 )
     \/ /\ commandPc = "copying"
        /\ command = "bulk_delete_copy"
        /\ ~ ( includeEntries /\ Len(sourceFiltered.metaobjects) > 0 )
  /\ commandPc' = IF commandPc = "deleting" THEN AfterDeleteCommand("returned")
                  ELSE "returned"
  /\ pc' = "idle"
  /\ UNCHANGED << op, dryRun, definitions, filtered, metaobjectIdMapping,
                  pendingMetaobjects, stillPending, pass, idx, results, proc, target,
                  nextId, calls, faults, delays >>
  /\ UNCHANGED << command, includeEntries, globalDryRun, yes, answer, confirmed, storeDefinitions,
                  definitionsToDelete, sourceFiltered, otherStore, resolverVars,
                  entryVars, manifestVars,
                  extraVars >>

CommandsNext ==
  \/ CommandPrepare
  \/ DeleteEntriesStart
  \/ DeleteEntriesOfType
  \/ DeleteEntry
  \/ DeleteEntriesTypeEnd
  \/ DeleteEntriesReturn
  \/ CommandDeleteDefinitions
  \/ DeleteStart
  \/ ProcessMetaobject
  \/ ProcessMetafield
  \/ ProcessPhaseEnd
  \/ ProcessReturn
  \/ BulkCopyDefinitions
  \/ CopyCommandExecute
  \/ CopyCommandCopy
  \/ CopyStart
  \/ CopyPassBegin
  \/ CopyMetaobject
  \/ CopyPassEnd
  \/ CopyReport
  \/ CommandEnd

SpecCommands == CommandsInit /\ [][CommandsNext]_vars

(* The entries of the type still in the store, and the delete calls issued *)
(* for an entry before call number i.                                      *)
EntriesLeft(type) == { e \in targetEntries : e.type = type }

EntryDeletesBefore(i, entry) ==
  { j \in 1..(i - 1) :
      /\ calls[j].call = "deleteMetaobjectEntry"
      /\ calls[j].item = EntryItem(entry) }

TypeOfDefinition(id) ==
  LET d == CHOOSE o \in Range(storeDefinitions.to.metaobjects) : o.id = id IN d.type

(* C15: with entries included, when the delete command or the delete       *)
(* phase of bulk has deleted an object-definition, a delete call was       *)
(* issued for each of the entries of that definition before the delete     *)
(* call of the definition.                                                 *)
C15_EntriesDeletedBeforeDefinition ==
  includeEntries =>
    \A i \in DOMAIN calls :
      ( calls[i].call = "deleteMetaobject" /\ calls[i].response.kind = "ok" ) =>
        \A e \in EntriesLeft(TypeOfDefinition(calls[i].item)) :
          EntryDeletesBefore(i, e) # { }

(* The calls that change a store. *)
MutatingCalls ==
  { i \in DOMAIN calls :
      calls[i].call \in { "deleteMetaobject", "deleteMetafield", "deleteMetaobjectEntry",
                          "createMetaobject", "createMetafield" } }

(* C21: in a run of delete or bulk without --yes that is not a dry run,    *)
(* when the operator's answer is not 'yes', no delete or create call is    *)
(* issued against a store.                                                 *)
C21_NoMutationWithoutYes ==
  ( ~ yes /\ ~ globalDryRun /\ ~ confirm(FALSE, answer) ) => MutatingCalls = { }

(* The store behind the client of the manager that issues the calls: bulk  *)
(* deletes through targetManager and copies through sourceManager; the     *)
(* delete command and the copy command, alone or run by bulk, delete and   *)
(* create through the manager of --store and of --to.                      *)
ManagerStore ==
  IF command = "bulk" /\ commandPc = "copying" THEN "from" ELSE "to"

BulkRuns == command \in { "bulk", "bulk_delete_copy" }

(* C22: in a run of bulk every delete call and every create call is issued *)
(* against the store named by --to, none against the one named by --from.  *)
C22_BulkMutatesTargetOnly ==
  [][ ( BulkRuns /\ Len(calls') > Len(calls) ) => ManagerStore = "to" ]_vars

(* The deleteMetaobjectEntry calls whose envelope has the given success.   *)
EntryDeletesWith(success) ==
  { i \in DOMAIN calls :
      /\ calls[i].call = "deleteMetaobjectEntry"
      /\ calls[i].response # "throw"
      /\ ( calls[i].response = "ok" ) = success }

(* C26: deleteMetaobjectEntries counts an entry as deleted when the        *)
(* envelope of its delete call has success = true, and records a failure   *)
(* for it when the envelope has success = false.                           *)
C26_EnvelopeDecides ==
  /\ entryResults.success = Cardinality(EntryDeletesWith(TRUE))
  /\ \A i \in EntryDeletesWith(FALSE) :
       \E k \in DOMAIN entryResults.errors :
          entryResults.errors[k].identifier =
            << calls[i].item[1], "/", calls[i].item[2] >>

(***************************************************************************)
(* ManifestParser and ListCommand.generateMarkdownReport.  A text is a     *)
(* sequence of characters; the names of a definition are strings, read     *)
(* through Chars where the code compares or prints them.                   *)
(***************************************************************************)
MaxLines == 4
MaxListed == 3

(* String.prototype.split on a one-character separator. *)
RECURSIVE Split(_, _)
Split(s, sep) ==
  IF sep \notin Range(s) THEN << s >>
  ELSE LET i == CHOOSE k \in DOMAIN s : s[k] = sep /\ \A j \in 1..(k - 1) : s[j] # sep
       IN  << SubSeq(s, 1, i - 1) >> \o Split(SubSeq(s, i + 1, Len(s)), sep)

(* Array.prototype.join *)
RECURSIVE Join(_, _)
Join(parts, sep) ==
  IF Len(parts) = 0 THEN << >>
  ELSE IF Len(parts) = 1 THEN parts[1]
  ELSE parts[1] \o sep \o Join(Tail(parts), sep)

(* Array.prototype.find: the first element that satisfies the test, if any. *)
Find(list, Test(_)) ==
  LET hits == SelectSeq(list, Test)
  IN  IF Len(hits) = 0 THEN << >> ELSE << hits[1] >>

(* parseDefinitionLine: the parsed identifier, or nothing for null. *)
parseDefinitionLine(definitionName, currentSection) ==
  IF currentSection = "metafields"
  THEN IF "." \in Range(definitionName)
       THEN LET parts == Split(definitionName, ".")
                namespace == parts[1]
                key == Join(Tail(parts), << "." >>)
            IN  << [ type |-> "metafield", namespace |-> namespace, key |-> key,
                     identifier |-> namespace \o << "." >> \o key ] >>
       ELSE << >>
  ELSE IF currentSection = "metaobjects"
  THEN << [ type |-> "metaobject", objectType |-> definitionName,
            identifier |-> definitionName ] >>
  ELSE << >>

(* The for loop of parseContent over the trimmed, non-empty lines. *)
RECURSIVE ParseLines(_, _, _, _)
ParseLines(lines, i, currentSection, defs) ==
  IF i > Len(lines) THEN defs
  ELSE LET line == lines[i]
       IN  IF StartsWith(line, Chars["### "]) /\ currentSection # null
           THEN LET definitionName == Trim(SubSeq(line, 5, Len(line)))
                    parsed == parseDefinitionLine(definitionName, currentSection)
                IN  ParseLines(lines, i + 1, currentSection,
                      IF Len(parsed) = 0 THEN defs
                      ELSE IF parsed[1].type = "metafield"
                      THEN [ defs EXCEPT !.metafields = Append(@, parsed[1]) ]
                      ELSE [ defs EXCEPT !.metaobjects = Append(@, parsed[1]) ])
           ELSE IF StartsWith(line, Chars["#"]) /\ ~ StartsWith(line, Chars["###"])
           THEN LET lowerLine == ToLowerCase(line)
                IN  ParseLines(lines, i + 1,
                      IF Includes(lowerLine, Chars["metafield"]) THEN "metafields"
                      ELSE IF Includes(lowerLine, Chars["metaobject"]) THEN "metaobjects"
                      ELSE currentSection,
                      defs)
           ELSE ParseLines(lines, i + 1, currentSection, defs)

(* ManifestParser.parseContent *)
parseContent(text) ==
  LET split == Split(text, "\n")
      trimmed == [ i \in DOMAIN split |-> Trim(split[i]) ]
      lines == SelectSeq(trimmed, LAMBDA line : Len(line) > 0)
  IN  ParseLines(lines, 1, null, NoDefinitions)

(* The test of the find over allDefinitions.metafields; the variant looks  *)
(* at the key only.                                                        *)
MetafieldFoundByKey(def, manifestDef) == Chars[def.key] = manifestDef.key

MetafieldFound(def, manifestDef) ==
  Chars[def.namespace] = manifestDef.namespace /\ Chars[def.key] = manifestDef.key

(* ... and of the find over allDefinitions.metaobjects. *)
MetaobjectFound(def, manifestDef) ==
  \/ /\ Len(manifestDef.objectType) > 0
     /\ Chars[def.type] = manifestDef.objectType
  \/ /\ "name" \in DOMAIN manifestDef
     /\ Chars[def.name] = manifestDef.name

(* The two for loops of findMatchingDefinitions. *)
RECURSIVE MatchMetafields(_, _, _, _)
MatchMetafields(manifestDefs, allDefinitions, i, found) ==
  IF i > Len(manifestDefs.metafields) THEN found
  ELSE LET manifestDef == manifestDefs.metafields[i]
           hit == Find(allDefinitions.metafields,
                       LAMBDA def : MetafieldFound(def, manifestDef))
       IN  MatchMetafields(manifestDefs, allDefinitions, i + 1,
             IF Len(hit) > 0 THEN [ found EXCEPT !.metafields = Append(@, hit[1]) ]
             ELSE [ found EXCEPT !.notFound =
                      Append(@, [ type |-> "metafield",
                                  identifier |-> manifestDef.namespace \o << "/" >>
                                                   \o manifestDef.key ]) ])

RECURSIVE MatchMetaobjects(_, _, _, _)
MatchMetaobjects(manifestDefs, allDefinitions, i, found) ==
  IF i > Len(manifestDefs.metaobjects) THEN found
  ELSE LET manifestDef == manifestDefs.metaobjects[i]
           hit == Find(allDefinitions.metaobjects,
                       LAMBDA def : MetaobjectFound(def, manifestDef))
       IN  MatchMetaobjects(manifestDefs, allDefinitions, i + 1,
             IF Len(hit) > 0 THEN [ found EXCEPT !.metaobjects = Append(@, hit[1]) ]
             ELSE [ found EXCEPT !.notFound =
                      Append(@, [ type |-> "metaobject",
                                  identifier |-> manifestDef.objectType ]) ])

(* ManifestParser.findMatchingDefinitions *)
findMatchingDefinitions(manifestDefs, allDefinitions) ==
  MatchMetaobjects(manifestDefs, allDefinitions, 1,
    MatchMetafields(manifestDefs, allDefinitions, 1, NoMatches))

(***************************************************************************)
(* The report of the list command, with resources 'both'.  The definitions *)
(* are sorted by localeCompare of their identifiers; for the characters of *)
(* the names used here that is the order of Collation, character by        *)
(* character.                                                              *)
(***************************************************************************)
Collation ==
  << "_", "-", ".", "a", "b", "c", "d", "e", "f", "g", "h", "i", "j", "k", "l", "m",
     "n", "o", "p", "q", "r", "s", "t", "u", "v", "w", "x", "y", "z" >>

CollationRank(c) == CHOOSE i \in DOMAIN Collation : Collation[i] = c

(* a.localeCompare(b) < 0 *)
LocaleBefore(a, b) ==
  \E k \in 1..Len(b) :
    /\ Len(a) >= k - 1
    /\ SubSeq(a, 1, k - 1) = SubSeq(b, 1, k - 1)
    /\ \/ Len(a) = k - 1
       \/ CollationRank(a[k]) < CollationRank(b[k])

(* Array.prototype.sort with that comparison; the sort is stable. *)
SortedBy(list, Key(_)) ==
  LET position(i) ==
        1 + Cardinality({ j \in DOMAIN list :
                            \/ LocaleBefore(Key(list[j]), Key(list[i]))
                            \/ Key(list[j]) = Key(list[i]) /\ j < i })
  IN  [ k \in DOMAIN list |-> list[CHOOSE i \in DOMAIN list : position(i) = k] ]

MetafieldSortKey(def) == Chars[def.namespace] \o Chars["."] \o Chars[def.key]
MetaobjectSortKey(def) == Chars[def.type]

DecimalString(n) == << "0", "1", "2", "3", "4", "5", "6", "7", "8", "9" >>[n + 1]

RESERVED_HEADING_MARK == << " ", "WARNING SIGN", " RESERVED" >>

RESERVED_NOTE ==
  << "- **", "WARNING SIGN",
     " Note:** This is a reserved Shopify definition and cannot be modified by third-party apps",
     "\n" >>

(* countReservedDefinitions(...).counts *)
ReservedCounts(metafieldDefinitions, metaobjectDefinitions) ==
  [ metafields |-> Len(SelectSeq(metafieldDefinitions,
                     LAMBDA def : isReservedMetafieldNamespace(def.namespace))),
    metaobjects |-> Len(SelectSeq(metaobjectDefinitions,
                      LAMBDA def : isReservedMetaobjectType(def.type))) ]

(* The segments of the validations line: name=value joined by ', '. *)
RECURSIVE ValidationSegments(_)
ValidationSegments(validations) ==
  IF Len(validations) = 0 THEN << >>
  ELSE << validations[1].name, "=", validations[1].value >>
       \o ( IF Len(validations) > 1 THEN << ", " >> ELSE << >> )
       \o ValidationSegments(Tail(validations))

(* The segments the report gets for one field-definition. *)
MetafieldReport(def) ==
  LET isReserved == isReservedMetafieldNamespace(def.namespace)
  IN  << "### ", def.namespace, ".", def.key >>
      \o ( IF isReserved THEN RESERVED_HEADING_MARK ELSE << >> )
      \o << "\n\n", "- **Type:** ", def.type.name, "\n",
            "- **Owner:** ", def.ownerType, "\n" >>
      \o ( IF def.description # "" THEN << "- **Description:** ", def.description, "\n" >>
           ELSE << >> )
      \o << "- **Access:** Admin=", def.access.admin, ", Storefront=",
            def.access.storefront, "\n" >>
      \o ( IF Len(def.validations) > 0
           THEN << "- **Validations:** " >> \o ValidationSegments(def.validations)
                \o << "\n" >>
           ELSE << >> )
      \o ( IF isReserved THEN RESERVED_NOTE ELSE << >> )
      \o << "\n" >>

RECURSIVE FieldSegments(_)
FieldSegments(fieldDefinitions) ==
  IF Len(fieldDefinitions) = 0 THEN << >>
  ELSE LET field == fieldDefinitions[1]
       IN  << "  - **", field.key, "** (", field.type.name, ")" >>
           \o ( IF field.required THEN << " *required*" >> ELSE << >> )
           \o ( IF field.description # "" THEN << " - ", field.description >>
                ELSE << >> )
           \o << "\n" >>
           \o FieldSegments(Tail(fieldDefinitions))

(* The segments the report gets for one object-definition. *)
MetaobjectReport(def) ==
  LET isReserved == isReservedMetaobjectType(def.type)
      capabilities ==
        ( IF def.capabilities.publishable.enabled THEN << "publishable" >> ELSE << >> )
        \o ( IF def.capabilities.translatable.enabled THEN << "translatable" >>
             ELSE << >> )
  IN  << "### ", def.type >>
      \o ( IF isReserved THEN RESERVED_HEADING_MARK ELSE << >> )
      \o << "\n\n", "- **Name:** ", def.name, "\n" >>
      \o ( IF def.description # "" THEN << "- **Description:** ", def.description, "\n" >>
           ELSE << >> )
      \o << "- **Fields:**", "\n" >>
      \o FieldSegments(def.fieldDefinitions)
      \o << "- **Access:** Admin=", def.access.admin, ", Storefront=",
            def.access.storefront, "\n" >>
      \o ( IF Len(capabilities) > 0
           THEN << "- **Capabilities:** ", capabilities[1] >>
                \o ( IF Len(capabilities) > 1 THEN << ", ", capabilities[2] >>
                     ELSE << >> )
                \o << "\n" >>
           ELSE << >> )
      \o ( IF isReserved THEN RESERVED_NOTE ELSE << >> )
      \o << "\n" >>

RECURSIVE ReportOfEach(_, _)
ReportOfEach(list, kind) ==
  IF Len(list) = 0 THEN << >>
  ELSE ( IF kind = "metafield" THEN MetafieldReport(list[1])
         ELSE MetaobjectReport(list[1]) )
       \o ReportOfEach(Tail(list), kind)

GENERATED_AT == "2025-08-22T14:00:00.000Z"

(* ListCommand.generateMarkdownReport: the report, and the two lists as    *)
(* the in-place sorts leave them.                                          *)
generateMarkdownReport(metafieldDefinitions, metaobjectDefinitions, storeName) ==
  LET reserved == ReservedCounts(metafieldDefinitions, metaobjectDefinitions)
      sortedMetafields == SortedBy(metafieldDefinitions, MetafieldSortKey)
      sortedMetaobjects == SortedBy(metaobjectDefinitions, MetaobjectSortKey)
  IN  [ report |->
          MessageText(
            << "# Store Definitions: ", storeName, "\n\n",
               "Generated: ", GENERATED_AT, "\n\n",
               "Found ", DecimalString(Len(metafieldDefinitions)),
               " metafield definitions and ",
               DecimalString(Len(metaobjectDefinitions)),
               " metaobject definitions.", "\n\n" >>
            \o ( IF reserved.metafields + reserved.metaobjects > 0
                 THEN << "**", "WARNING SIGN", " Reserved Definitions:** ",
                         DecimalString(reserved.metafields), " metafields and ",
                         DecimalString(reserved.metaobjects),
                         " metaobjects are reserved by Shopify and cannot be modified by third-party apps.",
                         "\n\n" >>
                 ELSE << >> )
            \o << "## Metafields", "\n\n" >>
            \o ReportOfEach(sortedMetafields, "metafield")
            \o << "## Metaobjects", "\n\n" >>
            \o ReportOfEach(sortedMetaobjects, "metaobject")),
        metafields |-> sortedMetafields,
        metaobjects |-> sortedMetaobjects ]

(***************************************************************************)
(* The definitions of a store as the list, copy and delete commands read   *)
(* them.  Field-definitions are unique per namespace, key and owner type,  *)
(* object-definitions per type.                                            *)
(***************************************************************************)
ListedField(k, namespace, key, ownerType, validations) ==
  [ id |-> Id("source", 100 + k), namespace |-> namespace, key |-> key,
    ownerType |-> ownerType, type |-> [ name |-> "single_line_text_field" ],
    description |-> "",
    access |-> [ admin |-> "PUBLIC_READ_WRITE", storefront |-> "PUBLIC_READ" ],
    validations |-> validations ]

ListedObject(i, type, name, description) ==
  [ id |-> Id("source", i), type |-> type, name |-> name, description |-> description,
    fieldDefinitions |->
      << [ key |-> "title", type |-> [ name |-> "single_line_text_field" ],
           required |-> TRUE, description |-> "" ] >>,
    access |-> [ admin |-> "PUBLIC_READ_WRITE", storefront |-> "PUBLIC_READ" ],
    capabilities |-> [ publishable |-> [ enabled |-> TRUE ],
                       translatable |-> [ enabled |-> FALSE ] ] ]

FieldPool ==
  << ListedField(1, "custom", "specs.weight", "PRODUCT", << >>),
     ListedField(2, "custom", "color", "PRODUCT", << [ name |-> "min", value |-> "0" ] >>),
     ListedField(3, "custom", "color", "COLLECTION", << >>),
     ListedField(4, "shopify", "color", "PRODUCT", << >>) >>

ObjectPool ==
  << ListedObject(1, "typeface", "Typeface", ""),
     ListedObject(2, "font", "Font", "Main font"),
     ListedObject(3, "shopify--font", "Font", "") >>

(* The elements of the pool at the positions in S, in the order of the pool. *)
Picked(pool, S) ==
  LET positions == SelectSeq([ i \in DOMAIN pool |-> i ], LAMBDA i : i \in S)
  IN  [ j \in DOMAIN positions |-> pool[positions[j]] ]

PickedLists(pool) ==
  { Picked(pool, S) : S \in { T \in SUBSET DOMAIN pool : Cardinality(T) <= MaxListed } }

ListedStores == [ metafields : PickedLists(FieldPool), metaobjects : PickedLists(ObjectPool) ]

(* The store a hand-written manifest is matched against. *)
TextStores ==
  { [ metafields |-> Picked(FieldPool, { 2 }), metaobjects |-> Picked(ObjectPool, { 2 }) ],
    [ metafields |-> Picked(FieldPool, { 2, 3 }), metaobjects |-> << >> ] }

(* Hand-written manifests: up to MaxLines of these lines. *)
ManifestLines ==
  { "## Metafields", "## Metaobjects", "### custom.color", "### Custom.color",
    "  ###   font  ", "### glyph" }

RECURSIVE TextOf(_)
TextOf(lines) ==
  IF Len(lines) = 0 THEN << >>
  ELSE Chars[lines[1]] \o Chars["\n"] \o TextOf(Tail(lines))

ManifestTexts ==
  UNION { { TextOf(lines) : lines \in [ 1..n -> ManifestLines ] } : n \in 1..MaxLines }

(* The manifest that holds exactly the identifiers of the definitions: one *)
(* identifier for each of them.                                            *)
ManifestOf(defs) ==
  [ metafields |->
      [ i \in DOMAIN defs.metafields |->
          [ type |-> "metafield",
            namespace |-> Chars[defs.metafields[i].namespace],
            key |-> Chars[defs.metafields[i].key],
            identifier |-> Chars[defs.metafields[i].namespace] \o Chars["."]
                             \o Chars[defs.metafields[i].key] ] ],
    metaobjects |->
      [ i \in DOMAIN defs.metaobjects |->
          [ type |-> "metaobject",
            objectType |-> Chars[defs.metaobjects[i].type],
            identifier |-> Chars[defs.metaobjects[i].type] ] ] ]

ManifestInit ==
  /\ manifestOrigin \in { "list", "text", "exact" }
  /\ listed \in IF manifestOrigin = "text" THEN TextStores ELSE ListedStores
  /\ content \in IF manifestOrigin = "text" THEN ManifestTexts ELSE { << >> }
  /\ manifest = IF manifestOrigin = "exact" THEN ManifestOf(listed) ELSE NoDefinitions
  /\ matches = NoMatches
  /\ manifestPc = CASE manifestOrigin = "list" -> "list"
                    [] manifestOrigin = "text" -> "parse"
                    [] OTHER -> "match"
  /\ ManagerIdle
  /\ ResolverIdle
  /\ EntriesIdle
  /\ CommandIdle
  /\ ExtraIdle

(* list: the report is generated and written to the manifest file. *)
ListDefinitions ==
  /\ manifestPc = "list"
  /\ LET generated == generateMarkdownReport(listed.metafields, listed.metaobjects,
                                             "staging")
     IN  /\ content' = generated.report
         /\ listed' = [ metafields |-> generated.metafields,
                        metaobjects |-> generated.metaobjects ]
  /\ manifestPc' = "parse"
  /\ UNCHANGED << manifestOrigin, manifest, matches, managerVars, resolverVars,
                  entryVars, commandVars, extraVars >>

(* copy and delete: ManifestParser.parseFile *)
ParseManifest ==
  /\ manifestPc = "parse"
  /\ manifest' = parseContent(content)
  /\ manifestPc' = "match"
  /\ UNCHANGED << manifestOrigin, listed, content, matches, managerVars, resolverVars,
                  entryVars, commandVars, extraVars >>

(* ... and ManifestParser.findMatchingDefinitions *)
MatchManifest ==
  /\ manifestPc = "match"
  /\ matches' = findMatchingDefinitions(manifest, listed)
  /\ manifestPc' = "matched"
  /\ UNCHANGED << manifestOrigin, listed, content, manifest, managerVars, resolverVars,
                  entryVars, commandVars, extraVars >>

ManifestNext ==
  \/ ListDefinitions
  \/ ParseManifest
  \/ MatchManifest

SpecManifest == ManifestInit /\ [][ManifestNext]_vars

(* How often the definition occurs in the matched lists. *)
TimesMatched(def) ==
  Cardinality({ i \in DOMAIN matches.metafields : matches.metafields[i] = def })
  + Cardinality({ i \in DOMAIN matches.metaobjects : matches.metaobjects[i] = def })

ListedDefinitions == Range(listed.metafields) \cup Range(listed.metaobjects)

(* C16: matched against the manifest that holds exactly the identifiers of *)
(* the definitions, every definition is returned once in the matched lists *)
(* and notFound is empty.                                                  *)
C16_ExactManifestMatchesAll ==
  ( manifestOrigin = "exact" /\ manifestPc = "matched" ) =>
    /\ matches.notFound = << >>
    /\ \A def \in ListedDefinitions : TimesMatched(def) = 1

(* C17: every identifier of the manifest yields one matched definition or  *)
(* one notFound record; a matched field-definition has the namespace and   *)
(* the key of an identifier, a matched object-definition the type of one,  *)
(* character by character, and an identifier reported as not found has no *)
(* such definition.                                                        *)
C17_EveryIdentifierAccounted ==
  manifestPc = "matched" =>
    /\ Len(matches.metafields) + Len(matches.metaobjects) + Len(matches.notFound)
         = Len(manifest.metafields) + Len(manifest.metaobjects)
    /\ \A i \in DOMAIN matches.metafields :
         \E j \in DOMAIN manifest.metafields :
           /\ Chars[matches.metafields[i].namespace] = manifest.metafields[j].namespace
           /\ Chars[matches.metafields[i].key] = manifest.metafields[j].key
    /\ \A i \in DOMAIN matches.metaobjects :
         \E j \in DOMAIN manifest.metaobjects :
           Chars[matches.metaobjects[i].type] = manifest.metaobjects[j].objectType
    /\ \A j \in DOMAIN manifest.metafields :
         ( \A def \in Range(listed.metafields) :
             \/ Chars[def.namespace] # manifest.metafields[j].namespace
             \/ Chars[def.key] # manifest.metafields[j].key )
         => \E n \in DOMAIN matches.notFound :
              /\ matches.notFound[n].type = "metafield"
              /\ matches.notFound[n].identifier =
                   manifest.metafields[j].namespace \o << "/" >> \o manifest.metafields[j].key
    /\ \A j \in DOMAIN manifest.metaobjects :
         ( \A def \in Range(listed.metaobjects) :
             Chars[def.type] # manifest.metaobjects[j].objectType )
         => \E n \in DOMAIN matches.notFound :
              /\ matches.notFound[n].type = "metaobject"
              /\ matches.notFound[n].identifier = manifest.metaobjects[j].objectType

(* A hand-written manifest names custom.color, which the store holds, and  *)
(* Custom.color, which it does not.                                        *)
C17_Witness ==
  /\ manifestPc = "matched"
  /\ manifestOrigin = "text"
  /\ Len(matches.metafields) > 0
  /\ \E n \in DOMAIN matches.notFound :
       matches.notFound[n].identifier = Chars["Custom"] \o Chars["/"] \o Chars["color"]

(* C18: the manifest parseContent returns holds no identifier twice. *)
C18_ManifestDeduplicated ==
  ( manifestOrigin # "exact" /\ manifestPc \in { "match", "matched" } ) =>
    /\ \A i, j \in DOMAIN manifest.metafields :
         manifest.metafields[i].identifier = manifest.metafields[j].identifier => i = j
    /\ \A i, j \in DOMAIN manifest.metaobjects :
         manifest.metaobjects[i].identifier = manifest.metaobjects[j].identifier => i = j

(* C19: the report of the list command, parsed and matched against the     *)
(* definitions it was generated for, returns every one of them and an      *)
(* empty notFound.                                                         *)
C19_ListOutputIsManifest ==
  ( manifestOrigin = "list" /\ manifestPc = "matched" ) =>
    /\ matches.notFound = << >>
    /\ \A def \in ListedDefinitions : TimesMatched(def) >= 1

(***************************************************************************)
(* getAllDefinitions.  The callback of map sends the request of each owner *)
(* type when map calls it, and the request for the object-definitions is   *)
(* sent before the first await suspends the call: all of them are in       *)
(* flight when it waits.  The answers arrive in any order.                 *)
(***************************************************************************)

(* Three of the fourteen owner types, in the order of the list. *)
METAFIELD_OWNER_TYPES == << "COLLECTION", "COMPANY", "PRODUCT" >>

FieldRequest(ownerType) == [ call |-> "getMetafieldDefinitions", ownerType |-> ownerType ]

ObjectRequest == [ call |-> "getMetaobjectDefinitions", ownerType |-> null ]

QueryOutcomes == { "ok", "throw" }

(* variables = { first: 100 } of both queries: the items of a page. *)
DefinitionPageSize == 2

WholeCollection(nodes, first) == nodes

(* The edges of the answer to a query with first and no cursor. *)
FirstPage(nodes, first) ==
  SubSeq(nodes, 1, IF Len(nodes) < first THEN Len(nodes) ELSE first)

(* The query variables that client.getMetafieldDefinitions and             *)
(* client.getMetaobjectDefinitions send.                                   *)
SentRequest(request) == request @@ [ first |-> DefinitionPageSize ]

(* result.metafieldDefinitions.edges.map((e) => e.node) of a request that  *)
(* was answered.                                                            *)
NodesOf(store, ownerType) ==
  FirstPage(SelectSeq(store.metafields, LAMBDA def : def.ownerType = ownerType),
            DefinitionPageSize)

(* metaobjectResult.metaobjectDefinitions.edges.map((e) => e.node) *)
ObjectNodesOf(store) == FirstPage(store.metaobjects, DefinitionPageSize)

FieldBranchValueUncaught(outcome, nodes) == nodes

(* What the callback of map returns: the nodes, or [] from its catch. *)
FieldBranchValue(outcome, nodes) ==
  IF outcome = "throw" THEN << >> ELSE nodes

(* Array.prototype.flat *)
RECURSIVE Flat(_)
Flat(lists) ==
  IF Len(lists) = 0 THEN << >> ELSE Head(lists) \o Flat(Tail(lists))

notFetchVars ==
  << managerVars, resolverVars, entryVars, commandVars, manifestVars, recreateVars,
     pagingVars, lateVars >>

FetchInit ==
  /\ fetchPc = "start"
  /\ remote \in ListedStores
  /\ inFlight = { }
  /\ metafieldResults = [ i \in DOMAIN METAFIELD_OWNER_TYPES |-> null ]
  /\ metaobjectResult = null
  /\ failedFetches = { }
  /\ fetchRequests = << >>
  /\ fetched = null
  /\ ManagerIdle
  /\ ResolverIdle
  /\ EntriesIdle
  /\ CommandIdle
  /\ ManifestIdle
  /\ LateIdle
  /\ RecreateIdle
  /\ PagingIdle

(* The call up to its first await: map sends one request per owner type,   *)
(* then getMetaobjectDefinitions sends its request.                        *)
FetchStart ==
  /\ fetchPc = "start"
  /\ inFlight' = { FieldRequest(METAFIELD_OWNER_TYPES[i]) : i \in DOMAIN METAFIELD_OWNER_TYPES }
                 \cup { ObjectRequest }
  /\ fetchRequests' =
       [ i \in DOMAIN METAFIELD_OWNER_TYPES |->
           SentRequest(FieldRequest(METAFIELD_OWNER_TYPES[i])) ]
       \o << SentRequest(ObjectRequest) >>
  /\ fetchPc' = "await_metaobjects"
  /\ UNCHANGED << remote, metafieldResults, metaobjectResult, failedFetches, fetched >>
  /\ UNCHANGED notFetchVars

(* The request of one owner type is answered, or fails: the promise of the *)
(* callback resolves.                                                      *)
FieldResponse ==
  /\ \E i \in DOMAIN METAFIELD_OWNER_TYPES, outcome \in QueryOutcomes :
       LET ownerType == METAFIELD_OWNER_TYPES[i]
       IN  /\ FieldRequest(ownerType) \in inFlight
           /\ inFlight' = inFlight \ { FieldRequest(ownerType) }
           /\ metafieldResults' =
                [ metafieldResults EXCEPT
                    ![i] = FieldBranchValue(outcome, NodesOf(remote, ownerType)) ]
           /\ failedFetches' = IF outcome = "throw" THEN failedFetches \cup { ownerType }
                               ELSE failedFetches
  /\ UNCHANGED << fetchPc, remote, metaobjectResult, fetchRequests, fetched >>
  /\ UNCHANGED notFetchVars

(* The request for the object-definitions is answered, or fails: the call  *)
(* goes on to Promise.all, or throws.                                      *)
MetaobjectResponse ==
  /\ fetchPc = "await_metaobjects"
  /\ ObjectRequest \in inFlight
  /\ inFlight' = inFlight \ { ObjectRequest }
  /\ \E outcome \in QueryOutcomes :
       IF outcome = "ok"
       THEN /\ metaobjectResult' = ObjectNodesOf(remote)
            /\ fetchPc' = "await_all"
       ELSE /\ metaobjectResult' = null
            /\ fetchPc' = "failed"
  /\ UNCHANGED << remote, metafieldResults, failedFetches, fetchRequests, fetched >>
  /\ UNCHANGED notFetchVars

(* Promise.all resolves when every promise has, and the call returns. *)
FetchReturn ==
  /\ fetchPc = "await_all"
  /\ \A i \in DOMAIN metafieldResults : metafieldResults[i] # null
  /\ fetched' = [ metafields |-> Flat(metafieldResults),
                  metaobjects |-> metaobjectResult ]
  /\ fetchPc' = "returned"
  /\ UNCHANGED << remote, inFlight, metafieldResults, metaobjectResult, failedFetches,
                  fetchRequests >>
  /\ UNCHANGED notFetchVars

FetchNext ==
  \/ FetchStart
  \/ FieldResponse
  \/ MetaobjectResponse
  \/ FetchReturn

SpecFetch == FetchInit /\ [][FetchNext]_vars

(* The field-definitions of the owner types whose request was answered, in *)
(* the order of the owner types.                                           *)
AnsweredDefinitions ==
  Flat([ i \in DOMAIN METAFIELD_OWNER_TYPES |->
           IF METAFIELD_OWNER_TYPES[i] \in failedFetches THEN << >>
           ELSE NodesOf(remote, METAFIELD_OWNER_TYPES[i]) ])

(* C23: a failed request of an owner type does not fail getAllDefinitions, *)
(* which fails only when the request for the object-definitions failed;    *)
(* the requests of the other owner types stay in flight until they are     *)
(* answered; the call returns the field-definitions that every owner type  *)
(* whose request was answered sent back, none for one whose request        *)
(* failed, and the object-definitions sent back.                           *)
C23_FailedOwnerTypeIsEmpty ==
  /\ fetchPc = "failed" => metaobjectResult = null
  /\ fetchPc # "start" =>
       \A i \in DOMAIN METAFIELD_OWNER_TYPES :
          \/ FieldRequest(METAFIELD_OWNER_TYPES[i]) \in inFlight
          \/ metafieldResults[i] # null
  /\ fetchPc = "returned" =>
       /\ fetched.metafields = AnsweredDefinitions
       /\ fetched.metaobjects = ObjectNodesOf(remote)

(* The call returned the field-definitions of COLLECTION and the           *)
(* object-definitions although the request of PRODUCT, which holds         *)
(* field-definitions, failed.                                              *)
C23_Witness ==
  /\ fetchPc = "returned"
  /\ failedFetches = { "PRODUCT" }
  /\ NodesOf(remote, "PRODUCT") # << >>
  /\ Len(fetched.metafields) > 0
  /\ Len(fetched.metaobjects) > 0

(* C24: two requests in flight at the same store at the same time are both *)
(* field-definition requests of getAllDefinitions.                         *)
C24_OnlyFieldFetchesOverlap ==
  \A a, b \in inFlight :
    a # b => a.call = "getMetafieldDefinitions" /\ b.call = "getMetafieldDefinitions"

RequestsOf(request) ==
  { i \in DOMAIN fetchRequests :
      fetchRequests[i].call = request.call /\ fetchRequests[i].ownerType = request.ownerType }

(* The definitions of a collection that follow its first page. *)
BeyondFirstPage(nodes) ==
  { nodes[i] : i \in { k \in DOMAIN nodes : k > DefinitionPageSize } }

FieldsOfOwner(store, ownerType) ==
  SelectSeq(store.metafields, LAMBDA def : def.ownerType = ownerType)

(* C38: getAllDefinitions sends one request per owner type and one for the *)
(* object-definitions, each for the first page and none with a cursor, and *)
(* sends no other; the definitions of a collection that follow its first   *)
(* page are not in what it returns.                                        *)
C38_FirstPageOnly ==
  /\ fetchPc = "start" => fetchRequests = << >>
  /\ fetchPc \notin { "start", "idle" } =>
       /\ Len(fetchRequests) = Len(METAFIELD_OWNER_TYPES) + 1
       /\ \A i \in DOMAIN METAFIELD_OWNER_TYPES :
             Cardinality(RequestsOf(FieldRequest(METAFIELD_OWNER_TYPES[i]))) = 1
       /\ Cardinality(RequestsOf(ObjectRequest)) = 1
       /\ \A i \in DOMAIN fetchRequests :
             /\ fetchRequests[i].first = DefinitionPageSize
             /\ DOMAIN fetchRequests[i] = { "call", "ownerType", "first" }
  /\ fetchPc = "returned" =>
       /\ \A i \in DOMAIN METAFIELD_OWNER_TYPES :
            \A def \in BeyondFirstPage(FieldsOfOwner(remote, METAFIELD_OWNER_TYPES[i])) :
               def \notin Range(fetched.metafields)
       /\ \A def \in BeyondFirstPage(remote.metaobjects) :
            def \notin Range(fetched.metaobjects)

(* The call returned from a store that holds more field-definitions of     *)
(* PRODUCT and more object-definitions than a page, with no request failed. *)
C38_Witness ==
  /\ fetchPc = "returned"
  /\ failedFetches = { }
  /\ BeyondFirstPage(FieldsOfOwner(remote, "PRODUCT")) # { }
  /\ BeyondFirstPage(remote.metaobjects) # { }
  /\ Len(fetched.metafields) >= DefinitionPageSize
  /\ Len(fetched.metaobjects) = DefinitionPageSize

(***************************************************************************)
(* createMetafieldDefinition and createMetaobjectDefinition with every     *)
(* attribute of a definition.  The store builds the definition it creates  *)
(* from the input and takes its own default for what the input leaves out. *)
(***************************************************************************)
(* A property of an input object: left out, or set to a value. *)
absent == << >>
Set(value) == << value >>

(* definitionInput of createMetafieldDefinition: no access, and the        *)
(* validations only when there are some.                                   *)
MetafieldCreateInput(def) ==
  [ name |-> def.name,
    namespace |-> def.namespace,
    key |-> def.key,
    description |-> def.description,
    type |-> def.type.name,
    ownerType |-> def.ownerType,
    access |-> absent,
    validations |->
      IF Len(def.validations) > 0
      THEN Set([ v \in DOMAIN def.validations |->
                   [ name |-> def.validations[v].name,
                     value |-> def.validations[v].value ] ])
      ELSE absent ]

(* definitionInput.capabilities of createMetaobjectDefinition; a fetched   *)
(* definition always has capabilities.                                     *)
CapabilitiesInput(capabilities) ==
  [ publishable |-> IF capabilities.publishable.enabled
                    THEN Set([ enabled |-> TRUE ]) ELSE absent,
    translatable |-> IF capabilities.translatable.enabled
                     THEN Set([ enabled |-> TRUE ]) ELSE absent ]

MetaobjectCreateInput(def) ==
  [ name |-> def.name,
    type |-> def.type,
    description |-> def.description,
    fieldDefinitions |->
      [ f \in DOMAIN def.fieldDefinitions |->
          [ key |-> def.fieldDefinitions[f].key,
            name |-> def.fieldDefinitions[f].name,
            type |-> def.fieldDefinitions[f].type.name,
            description |-> def.fieldDefinitions[f].description,
            required |-> def.fieldDefinitions[f].required,
            validations |->
              IF Len(def.fieldDefinitions[f].validations) > 0
              THEN Set([ v \in DOMAIN def.fieldDefinitions[f].validations |->
                           [ name |-> def.fieldDefinitions[f].validations[v].name,
                             value |-> def.fieldDefinitions[f].validations[v].value ] ])
              ELSE absent ] ],
    capabilities |-> CapabilitiesInput(def.capabilities) ]

(* What the store takes when the input leaves an attribute out. *)
DEFAULT_ACCESS == [ admin |-> "PUBLIC_READ_WRITE", storefront |-> "NONE" ]

DefaultCapability(given) ==
  IF given = absent THEN [ enabled |-> FALSE ] ELSE given[1]

OrNone(given) == IF given = absent THEN << >> ELSE given[1]

(* The definition the store creates for an input. *)
CreatedMetafield(input, newId) ==
  [ kind |-> "metafield",
    id |-> newId,
    name |-> input.name,
    namespace |-> input.namespace,
    key |-> input.key,
    description |-> input.description,
    type |-> [ name |-> input.type ],
    ownerType |-> input.ownerType,
    access |-> IF input.access = absent THEN DEFAULT_ACCESS ELSE input.access[1],
    validations |-> OrNone(input.validations) ]

CreatedMetaobject(input, newId) ==
  [ kind |-> "metaobject",
    id |-> newId,
    name |-> input.name,
    type |-> input.type,
    description |-> input.description,
    fieldDefinitions |->
      [ f \in DOMAIN input.fieldDefinitions |->
          [ key |-> input.fieldDefinitions[f].key,
            name |-> input.fieldDefinitions[f].name,
            type |-> [ name |-> input.fieldDefinitions[f].type ],
            description |-> input.fieldDefinitions[f].description,
            required |-> input.fieldDefinitions[f].required,
            validations |-> OrNone(input.fieldDefinitions[f].validations) ] ],
    capabilities |->
      [ publishable |-> DefaultCapability(input.capabilities.publishable),
        translatable |-> DefaultCapability(input.capabilities.translatable) ] ]

AdminAccess == { "PUBLIC_READ_WRITE", "MERCHANT_READ_WRITE" }
StorefrontAccess == { "NONE", "PUBLIC_READ" }

(* The field-definitions and object-definitions of a source store. *)
SourceMetafields ==
  { [ kind |-> "metafield", id |-> Id("source", 101), name |-> "Color",
      namespace |-> "custom", key |-> "color", description |-> description,
      type |-> [ name |-> typeName ], ownerType |-> ownerType,
      access |-> [ admin |-> admin, storefront |-> storefront ],
      validations |-> validations ] :
      description \in { null, "Main color" },
      typeName \in { "single_line_text_field", "number_integer" },
      ownerType \in { "PRODUCT", "COLLECTION" },
      admin \in AdminAccess,
      storefront \in StorefrontAccess,
      validations \in { << >>, << [ name |-> "min", value |-> "0" ] >> } }

SourceMetaobjects ==
  { [ kind |-> "metaobject", id |-> Id("source", 1), name |-> "Font", type |-> "font",
      description |-> description,
      fieldDefinitions |->
        << [ key |-> "title", name |-> "Title",
             type |-> [ name |-> "single_line_text_field" ], description |-> "",
             required |-> required, validations |-> validations ] >>,
      capabilities |-> [ publishable |-> [ enabled |-> publishable ],
                         translatable |-> [ enabled |-> translatable ] ] ] :
      description \in { null, "Main font" },
      required \in BOOLEAN,
      validations \in { << >>, << [ name |-> "max", value |-> "9" ] >> },
      publishable \in BOOLEAN,
      translatable \in BOOLEAN }

RecreateInit ==
  /\ recreatePc = "held"
  /\ recreateSource \in SourceMetafields \cup SourceMetaobjects
  /\ recreateTarget = [ recreateSource EXCEPT !.id = Id("target", 1) ]
  /\ ManagerIdle
  /\ ResolverIdle
  /\ EntriesIdle
  /\ CommandIdle
  /\ ManifestIdle
  /\ LateIdle
  /\ FetchIdle
  /\ PagingIdle

notRecreateVars ==
  << managerVars, resolverVars, entryVars, commandVars, manifestVars, fetchVars,
     pagingVars, lateVars >>

(* deleteDefinitions deletes the definition at the target. *)
RecreateDelete ==
  /\ recreatePc = "held"
  /\ recreateTarget' = [ kind |-> "none" ]
  /\ recreatePc' = "deleted"
  /\ UNCHANGED recreateSource
  /\ UNCHANGED notRecreateVars

(* The copy creates it from the definition of the source. *)
RecreateCreate ==
  /\ recreatePc = "deleted"
  /\ recreateTarget' =
       IF recreateSource.kind = "metafield"
       THEN CreatedMetafield(MetafieldCreateInput(recreateSource), Id("target", 2))
       ELSE CreatedMetaobject(MetaobjectCreateInput(recreateSource), Id("target", 2))
  /\ recreatePc' = "recreated"
  /\ UNCHANGED recreateSource
  /\ UNCHANGED notRecreateVars

RecreateNext ==
  \/ RecreateDelete
  \/ RecreateCreate

SpecRecreate == RecreateInit /\ [][RecreateNext]_vars

(* C25: the definition created at the target after the delete equals the   *)
(* definition of the source in every attribute but the identifier.         *)
C25_RecreatedEqualsSource ==
  recreatePc = "recreated" =>
    [ recreateTarget EXCEPT !.id = recreateSource.id ] = recreateSource

(* A getMetaobjectEntries call of copyMetaobjectEntries or                 *)
(* deleteMetaobjectEntries has just ended on a failed page request.        *)
FetchJustFailed ==
  /\ Len(entryCalls') = Len(entryCalls) + 1
  /\ entryCalls'[Len(entryCalls')].call = "getMetaobjectEntries"
  /\ FetchFailed(entryCalls'[Len(entryCalls')].outcome)

(* The entries of the pages fetched before the failed request. *)
FetchedBeforeFailure(call) ==
  SubSeq(EntriesHeld(call.item[1], targetEntries), 1,
         IF call.outcome = "throw" THEN 0 ELSE EntryPageSize)

PartialListProcessed ==
  FetchJustFailed =>
    /\ sourceEntries' = FetchedBeforeFailure(entryCalls'[Len(entryCalls')])
    /\ entryResults' = entryResults
    /\ IF Len(sourceEntries') = 0
       THEN entryPc' = entryPc /\ defIdx' = defIdx + 1
       ELSE entryPc' \in { "entries_type", "delete_type" } /\ entryIdx' = 1

NoErrorForTheType ==
  \A i \in DOMAIN entryResults.errors :
     entryResults.errors[i].type # "metaobject_entries"

PageSize == 2
MaxPaged == 5

PagedTypes == { "font", "typeface" }

PagedType == "font"

(* The positions of the entries of the type that follow the cursor. *)
PositionsAfter(store, type, cursor) ==
  SelectSeq([ i \in DOMAIN store |-> i ],
            LAMBDA i : store[i].type = type /\ ( cursor = absent \/ i > cursor[1] ))

(* response.metaobjects for a request: the nodes of the page and pageInfo. *)
PageOf(store, type, first, cursor) ==
  LET following == PositionsAfter(store, type, cursor)
      taken == SubSeq(following, 1, IF Len(following) < first THEN Len(following) ELSE first)
  IN  [ nodes |-> [ k \in DOMAIN taken |-> store[taken[k]] ],
        pageInfo |-> [ hasNextPage |-> Len(following) > first,
                       endCursor |-> IF Len(taken) = 0 THEN absent
                                     ELSE Set(taken[Len(taken)]) ] ]

NextCursorNone(pageInfo) == absent

(* after = entriesData.pageInfo.endCursor *)
NextCursor(pageInfo) == pageInfo.endCursor

PagingInit ==
  /\ pagePc = "loop"
  /\ \E n \in 0..MaxPaged :
       \E types \in [ 1..n -> PagedTypes ] :
          pagedStore = [ i \in 1..n |-> [ type |-> types[i], handle |-> i ] ]
  /\ allEntries = << >>
  /\ hasNextPage = TRUE
  /\ pageAfter = absent
  /\ pageRequests = << >>
  /\ pageFailed = FALSE
  /\ ManagerIdle
  /\ ResolverIdle
  /\ EntriesIdle
  /\ CommandIdle
  /\ ManifestIdle
  /\ LateIdle
  /\ FetchIdle
  /\ RecreateIdle

notPagingVars ==
  << managerVars, resolverVars, entryVars, commandVars, manifestVars, fetchVars,
     recreateVars, lateVars >>

(* One iteration of the while loop: the request, and either the page is    *)
(* pushed and the cursor taken, or the catch breaks out of the loop.       *)
PageFetch ==
  /\ pagePc = "loop"
  /\ hasNextPage
  /\ \E outcome \in QueryOutcomes :
       LET entriesData == PageOf(pagedStore, PagedType, PageSize, pageAfter)
       IN  IF outcome = "ok"
           THEN /\ allEntries' = allEntries \o entriesData.nodes
                /\ hasNextPage' = entriesData.pageInfo.hasNextPage
                /\ pageAfter' = NextCursor(entriesData.pageInfo)
                /\ pageRequests' = Append(pageRequests,
                     [ after |-> pageAfter, outcome |-> outcome,
                       pageInfo |-> entriesData.pageInfo ])
                /\ UNCHANGED << pagePc, pageFailed >>
           ELSE /\ pageRequests' = Append(pageRequests,
                     [ after |-> pageAfter, outcome |-> outcome,
                       pageInfo |-> [ hasNextPage |-> FALSE, endCursor |-> absent ] ])
                /\ pageFailed' = TRUE
                /\ pagePc' = "returned"
                /\ UNCHANGED << allEntries, hasNextPage, pageAfter >>
  /\ UNCHANGED pagedStore
  /\ UNCHANGED notPagingVars

(* The while condition is false: return allEntries. *)
PageReturn ==
  /\ pagePc = "loop"
  /\ ~ hasNextPage
  /\ pagePc' = "returned"
  /\ UNCHANGED << pagedStore, allEntries, hasNextPage, pageAfter, pageRequests,
                  pageFailed >>
  /\ UNCHANGED notPagingVars

PagingNext ==
  \/ PageFetch
  \/ PageReturn

SpecPaging == PagingInit /\ [][PagingNext]_vars

EntriesOfType(store, type) == SelectSeq(store, LAMBDA e : e.type = type)

(* C28: the first request carries no cursor and every later one the end    *)
(* cursor of the page before; no request follows a page that reported      *)
(* hasNextPage = false; when no request failed, the call returns the       *)
(* entries of the type, each once.                                         *)
C28_EveryEntryOnce ==
  /\ \A i \in DOMAIN pageRequests :
       /\ pageRequests[i].after =
            IF i = 1 THEN absent ELSE pageRequests[i - 1].pageInfo.endCursor
       /\ i < Len(pageRequests) =>
            pageRequests[i].outcome = "ok" /\ pageRequests[i].pageInfo.hasNextPage
  /\ ( pageRequests # << >> /\ pagePc = "loop" /\ hasNextPage ) =>
       pageRequests[Len(pageRequests)].pageInfo.hasNextPage
  /\ ( pagePc = "returned" /\ ~ pageFailed ) =>
       /\ allEntries = EntriesOfType(pagedStore, PagedType)
       /\ ~ pageRequests[Len(pageRequests)].pageInfo.hasNextPage

(* The call returned the entries of more than one page from a store that   *)
(* holds an entry of another type too.                                     *)
C28_Witness ==
  /\ pagePc = "returned"
  /\ ~ pageFailed
  /\ Len(pageRequests) >= 2
  /\ Len(allEntries) < Len(pagedStore)
  /\ Len(allEntries) > PageSize

(***************************************************************************)
(* ConfigManager (utils/config-manager.js).  The environment holds, per    *)
(* store name, the value of <NAME>_STORE_TOKEN (NoValue when it is not     *)
(* set); a store configuration is reduced to its access token, and a       *)
(* client to the token it was built with.  Store names are given in lower  *)
(* case, as toLowerCase leaves them.                                       *)
(***************************************************************************)
Tokens == { "tokenA", "tokenB" }

Environments == [ ConfigStoreNames -> Tokens \cup { NoValue } ]

(* _discoverStoresFromEnv: a store for every token variable with a value. *)
discoverStoresFromEnv(environment) ==
  [ n \in { m \in ConfigStoreNames : environment[m] # NoValue } |->
      [ accessToken |-> environment[n] ] ]

(* loadConfig returns this._config when it is set, and otherwise the       *)
(* configuration it builds from the environment ...                        *)
loadConfig(cached, environment) ==
  IF cached # << >> THEN cached[1] ELSE discoverStoresFromEnv(environment)

(* ... which it stores in this._config before _validateConfig throws for a *)
(* configuration without stores.                                           *)
validateConfigThrows(cached, environment) ==
  cached = << >> /\ DOMAIN discoverStoresFromEnv(environment) = { }

(* getAvailableStores: the names of the loaded stores with a token. *)
AvailableStores(config) == { n \in DOMAIN config : config[n].accessToken # NoValue }

earlyVars ==
  << managerVars, resolverVars, entryVars, commandVars, manifestVars, fetchVars,
     recreateVars, pagingVars >>

EarlyIdle ==
  /\ ManagerIdle
  /\ ResolverIdle
  /\ EntriesIdle
  /\ CommandIdle
  /\ ManifestIdle
  /\ FetchIdle
  /\ RecreateIdle
  /\ PagingIdle

notConfigVars == << earlyVars, classifyVars, conflictVars >>

ConfigInit ==
  /\ env \in Environments
  /\ instanceConfig = << >>
  /\ staticConfig = << >>
  /\ clients = [ n \in ConfigStoreNames |-> NoValue ]
  /\ configLast = NoCall
  /\ envAtReload = << >>
  /\ EarlyIdle
  /\ ClassifyIdle
  /\ ConflictIdle

(* The environment of the running process changes: a token is set,         *)
(* changed or removed.                                                     *)
EnvChange ==
  /\ \E n \in ConfigStoreNames, value \in Tokens \cup { NoValue } :
       /\ value # env[n]
       /\ env' = [ env EXCEPT ![n] = value ]
  /\ UNCHANGED << instanceConfig, staticConfig, clients, configLast, envAtReload >>
  /\ UNCHANGED notConfigVars

GetAvailableStores ==
  /\ instanceConfig' = << loadConfig(instanceConfig, env) >>
  /\ configLast' =
       [ call |-> "getAvailableStores", name |-> NoValue,
         threw |-> validateConfigThrows(instanceConfig, env),
         stores |-> IF validateConfigThrows(instanceConfig, env) THEN { }
                    ELSE AvailableStores(loadConfig(instanceConfig, env)),
         token |-> NoValue ]
  /\ UNCHANGED << env, staticConfig, clients, envAtReload >>
  /\ UNCHANGED notConfigVars

(* getStoreConfig throws for a name that is not among the loaded stores. *)
StoreConfigThrows(cached, environment, storeName) ==
  \/ validateConfigThrows(cached, environment)
  \/ storeName \notin DOMAIN loadConfig(cached, environment)
  \/ loadConfig(cached, environment)[storeName].accessToken = NoValue

GetStoreConfig ==
  \E storeName \in ConfigStoreNames :
    /\ instanceConfig' = << loadConfig(instanceConfig, env) >>
    /\ configLast' =
         [ call |-> "getStoreConfig", name |-> storeName,
           threw |-> StoreConfigThrows(instanceConfig, env, storeName),
           stores |-> { },
           token |-> IF StoreConfigThrows(instanceConfig, env, storeName) THEN NoValue
                     ELSE loadConfig(instanceConfig, env)[storeName].accessToken ]
    /\ UNCHANGED << env, staticConfig, clients, envAtReload >>
    /\ UNCHANGED notConfigVars

(* getShopifyClient: the cached client when there is one; otherwise a      *)
(* client built from getStoreConfig, and cached.                           *)
GetShopifyClient ==
  \E storeName \in ConfigStoreNames :
    IF clients[storeName] # NoValue
    THEN /\ configLast' =
              [ call |-> "getShopifyClient", name |-> storeName, threw |-> FALSE,
                stores |-> { }, token |-> clients[storeName] ]
         /\ UNCHANGED << env, instanceConfig, staticConfig, clients, envAtReload >>
         /\ UNCHANGED notConfigVars
    ELSE /\ instanceConfig' = << loadConfig(instanceConfig, env) >>
         /\ IF StoreConfigThrows(instanceConfig, env, storeName)
            THEN /\ clients' = clients
                 /\ configLast' =
                      [ call |-> "getShopifyClient", name |-> storeName,
                        threw |-> TRUE, stores |-> { }, token |-> NoValue ]
            ELSE /\ clients' =
                      [ clients EXCEPT ![storeName] =
                          loadConfig(instanceConfig, env)[storeName].accessToken ]
                 /\ configLast' =
                      [ call |-> "getShopifyClient", name |-> storeName,
                        threw |-> FALSE, stores |-> { },
                        token |-> loadConfig(instanceConfig, env)[storeName].accessToken ]
         /\ UNCHANGED << env, staticConfig, envAtReload >>
         /\ UNCHANGED notConfigVars

(* reload: clears the static client map, sets the static field             *)
(* ConfigManager._config to null, and returns this.loadConfig().           *)
Reload ==
  /\ clients' = [ n \in ConfigStoreNames |-> NoValue ]
  /\ staticConfig' = << >>
  /\ instanceConfig' = << loadConfig(instanceConfig, env) >>
  /\ configLast' =
       [ call |-> "reload", name |-> NoValue,
         threw |-> validateConfigThrows(instanceConfig, env),
         stores |-> IF validateConfigThrows(instanceConfig, env) THEN { }
                    ELSE AvailableStores(loadConfig(instanceConfig, env)),
         token |-> NoValue ]
  /\ envAtReload' = << env >>
  /\ UNCHANGED env
  /\ UNCHANGED notConfigVars

ConfigNext ==
  \/ EnvChange
  \/ GetAvailableStores
  \/ GetStoreConfig
  \/ GetShopifyClient
  \/ Reload

SpecConfig == ConfigInit /\ [][ConfigNext]_vars

(* The environment has not changed since the last reload(). *)
ReloadedFromThisEnv == envAtReload = << env >>

(* C31: after reload() the configuration is the one of the environment:    *)
(* with the environment as it was at the reload, getAvailableStores        *)
(* returns the stores that have a token in it, getStoreConfig returns the  *)
(* token it holds for the store (and throws for a store it does not        *)
(* hold), and a client built by getShopifyClient holds that token.         *)
C31_ReloadRereadsEnvironment ==
  ( ReloadedFromThisEnv /\ ~ configLast.threw ) =>
     /\ configLast.call = "getAvailableStores" =>
          configLast.stores = { n \in ConfigStoreNames : env[n] # NoValue }
     /\ configLast.call \in { "getStoreConfig", "getShopifyClient" } =>
          configLast.token = env[configLast.name]

(***************************************************************************)
(* The catch of a failed object-definition creation, for two definitions   *)
(* that differ only in their type name, fail in the same pass and got the  *)
(* same outcome from the remote.                                           *)
(***************************************************************************)
ClassifiedTypes == { "font", "typeface", "invalid_option", "metaobject_reference" }

(* What the remote answered to the create call: userErrors, or a failed    *)
(* request.                                                                *)
RemoteFailures ==
  { Rejected(TAKEN_ERRORS), Rejected(INVALID_REFERENCE_ERRORS), Thrown(HTTP_NOT_FOUND) }

(* The catch: error.message is what createMetaobjectDefinition threw for   *)
(* the definition, or what the client threw.                               *)
RequeuedByCatch(type, response, passNumber) ==
  RetryInNextPass(
    CaughtError(response, CreateMetaobjectError([ type |-> type ], response.userErrors)),
    passNumber)

notClassifyVars == << earlyVars, configVars, conflictVars >>

ClassifyInit ==
  /\ classifyPc = "failed"
  /\ typeA \in ClassifiedTypes
  /\ typeB \in ClassifiedTypes
  /\ remoteOutcome \in RemoteFailures
  /\ failedPass \in 1 .. MAX_DEPENDENCY_PASSES
  /\ requeuedA = FALSE
  /\ requeuedB = FALSE
  /\ EarlyIdle
  /\ ConfigIdle
  /\ ConflictIdle

CatchFirst ==
  /\ classifyPc = "failed"
  /\ requeuedA' = RequeuedByCatch(typeA, remoteOutcome, failedPass)
  /\ classifyPc' = "first"
  /\ UNCHANGED << typeA, typeB, remoteOutcome, failedPass, requeuedB >>
  /\ UNCHANGED notClassifyVars

CatchSecond ==
  /\ classifyPc = "first"
  /\ requeuedB' = RequeuedByCatch(typeB, remoteOutcome, failedPass)
  /\ classifyPc' = "classified"
  /\ UNCHANGED << typeA, typeB, remoteOutcome, failedPass, requeuedA >>
  /\ UNCHANGED notClassifyVars

ClassifyNext == CatchFirst \/ CatchSecond

SpecClassify == ClassifyInit /\ [][ClassifyNext]_vars

(* C34: two definitions that differ only in their type name and got the    *)
(* same remote outcome in the same pass are classified alike: both         *)
(* re-queued or both terminal.                                             *)
C34_TypeNameDoesNotDecide ==
  classifyPc = "classified" => requeuedA = requeuedB

(***************************************************************************)
(* CopyCommand.execute, conflict handling: the definitions of the target   *)
(* that conflict with a definition to copy are found and, unless the run   *)
(* is a dry run, deleted before the copy.  A field-definition is           *)
(* identified by namespace, key and owner type, an object-definition by    *)
(* its type.                                                               *)
(***************************************************************************)
MaxConflictFields == 2

ConflictOwnerTypes == { "PRODUCT", "COLLECTION" }

ConflictKeys == { "color", "size" }

ConflictTypes == { "font", "typeface" }

HeldField(store, n, key, ownerType) ==
  [ id |-> Id(store, 100 + n), namespace |-> "custom", key |-> key,
    ownerType |-> ownerType ]

HeldObject(store, type) == [ id |-> Id(store, 1), type |-> type ]

(* The field-definitions a store may hold: at most MaxConflictFields, no   *)
(* two of the same key and owner type.                                     *)
HeldFieldLists(store) ==
  UNION { { [ i \in 1..n |-> HeldField(store, i, c[i].key, c[i].ownerType) ] :
              c \in { f \in [ 1..n -> [ key : ConflictKeys,
                                        ownerType : ConflictOwnerTypes ] ] :
                        \A i, j \in 1..n : f[i] = f[j] => i = j } } :
          n \in 0..MaxConflictFields }

HeldObjectLists(store) ==
  { << >> } \cup { << HeldObject(store, type) >> : type \in ConflictTypes }

HeldDefinitions(store) ==
  [ metafields : HeldFieldLists(store), metaobjects : HeldObjectLists(store) ]

SameFieldIdentity(a, b) ==
  a.namespace = b.namespace /\ a.key = b.key /\ a.ownerType = b.ownerType

notConflictVars == << earlyVars, configVars, classifyVars >>

ConflictInit ==
  /\ conflictPc = "start"
  /\ conflictDryRun \in BOOLEAN
  /\ copyList \in HeldDefinitions("source")
  /\ targetHeld \in HeldDefinitions("target")
  /\ conflicts = NoDefinitions
  /\ deletedAtTarget = NoDefinitions
  /\ EarlyIdle
  /\ ConfigIdle
  /\ ClassifyIdle

(* The two loops over definitionsToCopy, each with a find in the           *)
(* definitions of the target; a dry run returns after the report.          *)
DetectConflicts ==
  /\ conflictPc = "start"
  /\ conflicts' =
       [ metafields |-> MetafieldConflicts(copyList.metafields, targetHeld.metafields),
         metaobjects |-> MetaobjectConflicts(copyList.metaobjects, targetHeld.metaobjects) ]
  /\ conflictPc' = IF conflictDryRun THEN "returned" ELSE "detected"
  /\ UNCHANGED << conflictDryRun, copyList, targetHeld, deletedAtTarget >>
  /\ UNCHANGED notConflictVars

(* What is left of a list after the definitions with an id in gone. *)
Without(list, gone) == SelectSeq(list, LAMBDA d : d.id \notin gone)

Only(list, gone) == SelectSeq(list, LAMBDA d : d.id \in gone)

(* targetManager.deleteDefinitions(conflictingDefinitions): every          *)
(* conflicting definition is deleted, unless its delete call fails.        *)
DeleteConflicts ==
  /\ conflictPc = "detected"
  /\ \E failed \in SUBSET ( { d.id : d \in Range(conflicts.metafields) }
                            \cup { d.id : d \in Range(conflicts.metaobjects) } ) :
       LET gone == ( { d.id : d \in Range(conflicts.metafields) }
                     \cup { d.id : d \in Range(conflicts.metaobjects) } ) \ failed
       IN  /\ Cardinality(failed) <= 1
           /\ deletedAtTarget' =
                [ metafields |-> Only(targetHeld.metafields, gone),
                  metaobjects |-> Only(targetHeld.metaobjects, gone) ]
           /\ targetHeld' =
                [ metafields |-> Without(targetHeld.metafields, gone),
                  metaobjects |-> Without(targetHeld.metaobjects, gone) ]
  /\ conflictPc' = "deleted"
  /\ UNCHANGED << conflictDryRun, copyList, conflicts >>
  /\ UNCHANGED notConflictVars

ConflictNext == DetectConflicts \/ DeleteConflicts

SpecConflicts == ConflictInit /\ [][ConflictNext]_vars

(* C36: before copying, the copy command deletes at the target only        *)
(* definitions with the identity of a definition being copied: the same    *)
(* type for an object-definition; the same namespace, key and owner type   *)
(* for a field-definition.                                                 *)
C36_OnlySameIdentityDeleted ==
  /\ \A d \in Range(deletedAtTarget.metafields) :
        \E s \in Range(copyList.metafields) : SameFieldIdentity(s, d)
  /\ \A d \in Range(deletedAtTarget.metaobjects) :
        \E s \in Range(copyList.metaobjects) : s.type = d.type

====
